---- MODULE Spec2Model ----
(***************************************************************************)
(* Model of the moose execution core:                                      *)
(*   - the gRPC choreography server (moose/src/choreography/grpc.rs):      *)
(*     launch / retrieve / abort endpoints, the session-id -> result-cell  *)
(*     map and the detached output-gathering task;                         *)
(*   - the symbolic session and executor (moose/src/execution/symbolic.rs):*)
(*     add_operation, the replicated setup cache and run_computation;      *)
(*   - host kernels on ring, bit and float tensors (moose/src/host/ops.rs, *)
(*     moose/src/floatingpoint/ops.rs).                                    *)
(***************************************************************************)
EXTENDS Integers, Sequences, FiniteSets, TLC

VARIABLES
    \* ---- choreography server (grpc.rs) ----
    choreographer,   \* GrpcChoreography.choreographer : Option<String>
    shard,           \* the DashMap shard each session id hashes to
    result_stores,   \* GrpcChoreography.result_stores : DashMap<SessionId, Arc<AsyncCell<..>>>
    pc,              \* position of every endpoint call
    req,             \* what every endpoint call has read of its request
    resp,            \* the response every endpoint call returned
    outputs,         \* per session: output name -> async value (the outputs map of execute_computation)
    task,            \* per session: the detached output-gathering task
    \* ---- symbolic sessions (symbolic.rs) ----
    computation,     \* the Computation handed to SymbolicExecutor::run_computation
    state,           \* SymbolicSession.state of every session: ops and replicated_keys
    run,             \* every run of run_computation: position, env, outcome
    thr,             \* every thread calling into one shared session
    \* ---- host kernels (host/ops.rs, floatingpoint/ops.rs) ----
    kernel           \* one kernel invocation: operator, arguments, outcome

chorVars == <<choreographer, shard, result_stores, pc, req, resp, outputs, task>>

symVars == <<computation, state, run, thr>>

kerVars == <<kernel>>

vars == <<choreographer, shard, result_stores, pc, req, resp, outputs, task,
          computation, state, run, thr, kernel>>

(***************************************************************************)
(* Bounds of the model.                                                    *)
(***************************************************************************)
MaxSid == 2        \* session ids 1..MaxSid
MaxCalls == 3      \* endpoint calls the server receives
MaxOutputs == 2    \* output names a computation may declare
NumShards == 2     \* shards of the DashMap

Sids == 1..MaxSid
Calls == 1..MaxCalls
Shards == 1..NumShards
OutputName(i) == "output_" \o ToString(i)
OutputNames == {OutputName(i) : i \in 1..MaxOutputs}
\* The names of a computation that declares k outputs.
OutputSet(k) == {OutputName(i) : i \in 1..k}

\* Bytes of a session id that bincode cannot decode.
BadSidBytes == 0
SidBytes == Sids \cup {BadSidBytes}

(***************************************************************************)
(* Identities and the authorization check.                                 *)
(***************************************************************************)
NoIdentity == "none"              \* Option::None
MalformedCert == "malformed"      \* credentials extract_sender cannot read
Credentials == {NoIdentity, "alice", "mallory", MalformedCert}
Choreographers == {NoIdentity, "alice"}

AuthOk == "ok"

\* crate::grpc::extract_sender: Result<Option<String>>
extract_sender(cred) ==
    IF cred = MalformedCert
    THEN [ok |-> FALSE, id |-> NoIdentity]
    ELSE [ok |-> TRUE, id |-> cred]

\* A check that accepts a certificate nobody asked for.
check_choreographer_lenient(expected, cred) ==
    LET s == extract_sender(cred) IN
    IF ~s.ok THEN "failed to extract sender identity"
    ELSE IF expected = NoIdentity THEN AuthOk
    ELSE IF s.id = NoIdentity THEN "expected choreographer certificate"
    ELSE IF expected # s.id THEN "expected choreographer did not match actual"
    ELSE AuthOk

\* GrpcChoreography::check_choreographer: AuthOk, or the message of the Aborted status.
check_choreographer(expected, cred) ==
    LET s == extract_sender(cred) IN
    IF ~s.ok THEN "failed to extract sender identity"
    ELSE IF expected = NoIdentity /\ s.id = NoIdentity THEN AuthOk
    ELSE IF expected = NoIdentity THEN "did not expect choreographer certificate"
    ELSE IF s.id = NoIdentity THEN "expected choreographer certificate"
    ELSE IF expected # s.id THEN "expected choreographer did not match actual"
    ELSE AuthOk

AuthMessages ==
    { "failed to extract sender identity",
      "did not expect choreographer certificate",
      "expected choreographer certificate",
      "expected choreographer did not match actual" }

\* bincode::deserialize::<SessionId>
DeserializeSessionId(bytes) ==
    IF bytes \in Sids THEN [ok |-> TRUE, sid |-> bytes] ELSE [ok |-> FALSE, sid |-> BadSidBytes]

(***************************************************************************)
(* Responses.                                                              *)
(***************************************************************************)
NoValues == <<>>
NoResponse == [status |-> "none", msg |-> "", values |-> NoValues]
Aborted(m) == [status |-> "Aborted", msg |-> m, values |-> NoValues]
NotFound(m) == [status |-> "NotFound", msg |-> m, values |-> NoValues]
OkResponse(v) == [status |-> "Ok", msg |-> "", values |-> v]
\* unimplemented!() unwinds the handler: the call ends without a response of the service.
Panicked(m) == [status |-> "Panic", msg |-> m, values |-> NoValues]

MsgSessionExists == "session id exists already or inconsistent metric and result map"
MsgBadSessionId == "failed to parse session id"
MsgFailedLaunch == "failed launch computation"
MsgUnknownSession == "unknown session id"

\* The payloads of a launch request after the session id: all decodable, or the
\* first one bincode fails on.
Payloads == {"ok", "computation", "arguments", "role assignment"}
MsgBadPayload(payload) == "failed to parse " \o payload

(***************************************************************************)
(* Result cells (AsyncCell<ComputationOutputs>) and the result store.      *)
(***************************************************************************)
Absent == [state |-> "absent"]

\* AsyncCell::shared(): a fresh empty cell; `owner` is the identity of the Arc.
AsyncCellShared(owner) == [state |-> "empty", owner |-> owner]

\* ComputationOutputs { outputs, elapsed_time: Some(..) }
ComputationOutputs(results) == [outputs |-> results, elapsed_time |-> "Some"]

\* AsyncCell::set
CellSet(cell, v) == [state |-> "full", owner |-> cell.owner, value |-> v]

IsFull(cell) == cell.state = "full"

\* bincode::serialize(&results)
Serialize(v) == <<"bincode", v>>

\* An occupancy check that never finds the entry (a plain insert).
OccupiedNever(stores, sid) == FALSE

\* DashMap::entry(sid) is Entry::Occupied
Occupied(stores, sid) == stores[sid] # Absent

\* VacantEntry::insert
VacantInsert(stores, sid, cell) == [stores EXCEPT ![sid] = cell]

EmptyMap == [n \in {} |-> 0]
MapInsert(m, k, v) == [x \in DOMAIN m \cup {k} |-> IF x = k THEN v ELSE m[x]]

(***************************************************************************)
(* Async output values of the runtime session.                             *)
(***************************************************************************)
Pending == [st |-> "pending"]
Resolved(v) == [st |-> "ok", v |-> v]
Failed == [st |-> "err"]

\* The value the runtime computes for an output of a session.
ValueOf(sid, n) == <<sid, n>>

NoTask == [pc |-> "none", queue |-> <<>>, results |-> EmptyMap]

\* The order in which the task's loop visits the k entries of the outputs
\* HashMap. The order of a HashMap is unspecified; output names are
\* interchangeable, so the order by index stands for every order. The async
\* values themselves resolve in any order.
IterationOrder(k) == [i \in 1..k |-> OutputName(i)]

\* A retrieve call that awaits a cell keeps the dashmap Ref, i.e. the read lock
\* of the shard, across the await.
ReadGuardHeld(sh) ==
    \E q \in Calls : pc[q] = "awaiting" /\ shard[req[q].sid] = sh

ChorInit ==
    /\ choreographer \in Choreographers
    /\ shard \in {f \in [Sids -> Shards] : f[1] = 1}
    /\ result_stores = [s \in Sids |-> Absent]
    /\ pc = [p \in Calls |-> "idle"]
    /\ req = [p \in Calls |-> [kind |-> "none", sender |-> NoIdentity, sid |-> BadSidBytes]]
    /\ resp = [p \in Calls |-> NoResponse]
    /\ outputs = [s \in Sids |-> EmptyMap]
    /\ task = [s \in Sids |-> NoTask]

\* What a handler knows of its request: the credentials it was sent with and,
\* once the sender is authorized, the session id it decodes (BadSidBytes when the
\* bytes do not decode, or are never decoded).
Request(kind, cred, auth, parsed) ==
    [kind |-> kind, sender |-> cred,
     sid |-> IF auth = AuthOk THEN parsed.sid ELSE BadSidBytes]

\* Session ids are opaque: they are numbered in the order requests first name them.
NamedSids == {req[q].sid : q \in Calls} \ {BadSidBytes}
FreshOrNamed(bytes) == \A s \in Sids : s < bytes => s \in NamedSids

\* Calls are numbered in the order they arrive.
Arrives(p, bytes) ==
    /\ pc[p] = "idle"
    /\ IF p = 1 THEN TRUE ELSE pc[p - 1] # "idle"
    /\ FreshOrNamed(bytes)

Respond(p, r) ==
    /\ pc' = [pc EXCEPT ![p] = "done"]
    /\ resp' = [resp EXCEPT ![p] = r]

Goto(p, label) ==
    /\ pc' = [pc EXCEPT ![p] = label]
    /\ UNCHANGED resp

(***************************************************************************)
(* LaunchComputation (grpc.rs 97-191).                                     *)
(***************************************************************************)
\* Arrival of the request: check_choreographer, then the session id is decoded.
LaunchComputation(p, cred, bytes) ==
    /\ Arrives(p, bytes)
    /\ LET auth == check_choreographer(choreographer, cred)
           parsed == DeserializeSessionId(bytes)
       IN  /\ req' = [req EXCEPT ![p] = Request("launch", cred, auth, parsed)]
           /\ IF auth # AuthOk THEN Respond(p, Aborted(auth))
              ELSE IF ~parsed.ok THEN Respond(p, Aborted(MsgBadSessionId))
              ELSE Goto(p, "entry")
    /\ UNCHANGED <<choreographer, shard, result_stores, outputs, task, symVars, kerVars>>

\* result_stores.entry(session_id): takes the write lock of the shard, so it
\* waits while a Ref of that shard is alive. Occupied: Aborted. Vacant: the cell
\* is inserted, then the three remaining payloads are decoded and
\* execute_computation is called.
LaunchEntry(p, payload) ==
    /\ pc[p] = "entry"
    /\ ~ReadGuardHeld(shard[req[p].sid])
    /\ LET sid == req[p].sid IN
       IF Occupied(result_stores, sid)
       THEN /\ Respond(p, Aborted(MsgSessionExists))
            /\ UNCHANGED result_stores
       ELSE /\ result_stores' = VacantInsert(result_stores, sid, AsyncCellShared(p))
            /\ IF payload # "ok"
               THEN Respond(p, Aborted(MsgBadPayload(payload)))
               ELSE Goto(p, "executing")
    /\ UNCHANGED <<choreographer, shard, req, outputs, task, symVars, kerVars>>

\* A launch that takes its cell back out of the map when execute_computation fails.
LaunchExecuteFailsCleans(p) ==
    /\ pc[p] = "executing"
    /\ result_stores' = [result_stores EXCEPT ![req[p].sid] = Absent]
    /\ Respond(p, Aborted(MsgFailedLaunch))
    /\ UNCHANGED <<choreographer, shard, req, outputs, task, symVars, kerVars>>

\* execute_computation(..).await resolves with an error.
LaunchExecuteFails(p) ==
    /\ pc[p] = "executing"
    /\ Respond(p, Aborted(MsgFailedLaunch))
    /\ UNCHANGED <<choreographer, shard, result_stores, req, outputs, task, symVars, kerVars>>

\* execute_computation(..).await resolves with the outputs map; the gathering
\* task is spawned with the map moved into it.
LaunchExecuted(p, k) ==
    /\ pc[p] = "executing"
    /\ LET sid == req[p].sid IN
       /\ outputs' = [outputs EXCEPT ![sid] = [n \in OutputSet(k) |-> Pending]]
       /\ task' = [task EXCEPT ![sid] =
                      [pc |-> "gathering", queue |-> IterationOrder(k),
                       results |-> EmptyMap]]
    /\ Goto(p, "spawned")
    /\ UNCHANGED <<choreographer, shard, result_stores, req, symVars, kerVars>>

\* A launch endpoint that waits for the session's results before it answers.
LaunchRespondAfterResults(p) ==
    /\ pc[p] = "spawned"
    /\ IsFull(result_stores[req[p].sid])
    /\ Respond(p, OkResponse(NoValues))
    /\ UNCHANGED <<choreographer, shard, result_stores, req, outputs, task, symVars, kerVars>>

\* Ok(tonic::Response::new(LaunchComputationResponse::default()))
LaunchRespond(p) ==
    /\ pc[p] = "spawned"
    /\ Respond(p, OkResponse(NoValues))
    /\ UNCHANGED <<choreographer, shard, result_stores, req, outputs, task, symVars, kerVars>>

(***************************************************************************)
(* The runtime session resolves the async value of an output.              *)
(***************************************************************************)
OutputResolves(sid, n) ==
    /\ n \in DOMAIN outputs[sid]
    /\ outputs[sid][n] = Pending
    /\ outputs' = [outputs EXCEPT ![sid][n] = Resolved(ValueOf(sid, n))]
    /\ UNCHANGED <<choreographer, shard, result_stores, pc, req, resp, task, symVars, kerVars>>

OutputFails(sid, n) ==
    /\ n \in DOMAIN outputs[sid]
    /\ outputs[sid][n] = Pending
    /\ outputs' = [outputs EXCEPT ![sid][n] = Failed]
    /\ UNCHANGED <<choreographer, shard, result_stores, pc, req, resp, task, symVars, kerVars>>

(***************************************************************************)
(* The detached task (grpc.rs 168-186).                                    *)
(***************************************************************************)
\* A loop that leaves a failed output out of the results and goes on.
TaskAwaitOutputLenient(sid) ==
    /\ task[sid].pc = "gathering"
    /\ task[sid].queue # <<>>
    /\ LET n == Head(task[sid].queue)
           o == outputs[sid][n]
       IN  /\ o # Pending
           /\ task' = [task EXCEPT ![sid] =
                          [pc |-> "gathering",
                           queue |-> Tail(task[sid].queue),
                           results |-> IF o.st = "ok"
                                       THEN MapInsert(task[sid].results, n, o.v)
                                       ELSE task[sid].results]]
    /\ UNCHANGED <<choreographer, shard, result_stores, pc, req, resp, outputs, symVars, kerVars>>

\* One turn of the loop: output_value.await.unwrap(), results.insert(..).
TaskAwaitOutput(sid) ==
    /\ task[sid].pc = "gathering"
    /\ task[sid].queue # <<>>
    /\ LET n == Head(task[sid].queue)
           o == outputs[sid][n]
       IN  /\ o # Pending
           /\ IF o.st = "ok"
              THEN task' = [task EXCEPT ![sid] =
                              [pc |-> "gathering",
                               queue |-> Tail(task[sid].queue),
                               results |-> MapInsert(task[sid].results, n, o.v)]]
              ELSE task' = [task EXCEPT ![sid].pc = "panicked"]
    /\ UNCHANGED <<choreographer, shard, result_stores, pc, req, resp, outputs, symVars, kerVars>>

\* A task that publishes as soon as at most one output is outstanding.
TaskReadyEarly(t) == Len(t.queue) <= 1

\* The loop over the outputs has ended.
TaskReady(t) == t.queue = <<>>

\* A task that fills a cell of its own instead of the registered one.
TaskPublishDetached(stores, sid, results) == stores

\* A task that sets every registered cell that is still empty.
TaskPublishAll(stores, sid, results) ==
    [s \in DOMAIN stores |->
        IF stores[s] # Absent /\ ~IsFull(stores[s])
        THEN CellSet(stores[s], ComputationOutputs(results))
        ELSE stores[s]]

\* result_stores.get(&session_id) .. result_cell.set(ComputationOutputs {..})
TaskPublish(stores, sid, results) ==
    [stores EXCEPT ![sid] = CellSet(stores[sid], ComputationOutputs(results))]

TaskSetResults(sid) ==
    /\ task[sid].pc = "gathering"
    /\ TaskReady(task[sid])
    /\ IF result_stores[sid] = Absent
       THEN \* .expect("session disappeared unexpectedly")
            /\ task' = [task EXCEPT ![sid].pc = "panicked"]
            /\ UNCHANGED result_stores
       ELSE /\ result_stores' = TaskPublish(result_stores, sid, task[sid].results)
            /\ task' = [task EXCEPT ![sid].pc = "done"]
    /\ UNCHANGED <<choreographer, shard, pc, req, resp, outputs, symVars, kerVars>>

(***************************************************************************)
(* RetrieveResults (grpc.rs 200-226).                                      *)
(***************************************************************************)
\* The status of a retrieve of an unknown session, had it been Aborted like
\* every other failure of the server.
UnknownSessionAborted == Aborted(MsgUnknownSession)

UnknownSession == NotFound(MsgUnknownSession)

\* Arrival: check_choreographer, decoding, result_stores.get(&session_id). A
\* full cell answers at once; an empty one suspends the call on cell.get(),
\* with the Ref of the map entry alive.
RetrieveResults(p, cred, bytes) ==
    /\ Arrives(p, bytes)
    /\ LET auth == check_choreographer(choreographer, cred)
           parsed == DeserializeSessionId(bytes)
       IN  /\ req' = [req EXCEPT ![p] = Request("retrieve", cred, auth, parsed)]
           /\ IF auth # AuthOk THEN Respond(p, Aborted(auth))
              ELSE IF ~parsed.ok THEN Respond(p, Aborted(MsgBadSessionId))
              ELSE IF result_stores[parsed.sid] = Absent THEN Respond(p, UnknownSession)
              ELSE IF IsFull(result_stores[parsed.sid])
                   THEN Respond(p, OkResponse(Serialize(result_stores[parsed.sid].value)))
                   ELSE Goto(p, "awaiting")
    /\ UNCHANGED <<choreographer, shard, result_stores, outputs, task, symVars, kerVars>>

\* A retrieve that takes the value out of the cell instead of cloning it.
RetrieveResumeTakes(p) ==
    /\ pc[p] = "awaiting"
    /\ IsFull(result_stores[req[p].sid])
    /\ Respond(p, OkResponse(Serialize(result_stores[req[p].sid].value)))
    /\ result_stores' = [result_stores EXCEPT ![req[p].sid] =
                            AsyncCellShared(result_stores[req[p].sid].owner)]
    /\ UNCHANGED <<choreographer, shard, req, outputs, task, symVars, kerVars>>

\* cell.get().await completes once the cell is full; the value is cloned.
RetrieveResume(p) ==
    /\ pc[p] = "awaiting"
    /\ IsFull(result_stores[req[p].sid])
    /\ Respond(p, OkResponse(Serialize(result_stores[req[p].sid].value)))
    /\ UNCHANGED <<choreographer, shard, result_stores, req, outputs, task, symVars, kerVars>>

(***************************************************************************)
(* AbortComputation (grpc.rs 193-198): unimplemented!().                   *)
(***************************************************************************)
\* An abort that removes the entry of the session from the map.
AbortComputationRemoves(p, sid) ==
    /\ Arrives(p, sid)
    /\ req' = [req EXCEPT ![p] = [kind |-> "abort", sender |-> NoIdentity, sid |-> sid]]
    /\ result_stores' = [result_stores EXCEPT ![sid] = Absent]
    /\ Respond(p, Aborted("aborted"))
    /\ UNCHANGED <<choreographer, shard, outputs, task, symVars, kerVars>>

\* The handler reads nothing of the request; `sid` is the session the caller named.
AbortComputation(p, sid) ==
    /\ Arrives(p, sid)
    /\ req' = [req EXCEPT ![p] = [kind |-> "abort", sender |-> NoIdentity, sid |-> sid]]
    /\ Respond(p, Panicked("not implemented"))
    /\ UNCHANGED <<choreographer, shard, result_stores, outputs, task, symVars, kerVars>>

ChorNext ==
    \/ \E p \in Calls, cred \in Credentials, bytes \in SidBytes :
          LaunchComputation(p, cred, bytes)
    \/ \E p \in Calls, payload \in Payloads : LaunchEntry(p, payload)
    \/ \E p \in Calls : LaunchExecuteFails(p)
    \/ \E p \in Calls, k \in 0..MaxOutputs : LaunchExecuted(p, k)
    \/ \E p \in Calls : LaunchRespond(p)
    \/ \E sid \in Sids, n \in OutputNames : OutputResolves(sid, n)
    \/ \E sid \in Sids, n \in OutputNames : OutputFails(sid, n)
    \/ \E sid \in Sids : TaskAwaitOutput(sid)
    \/ \E sid \in Sids : TaskSetResults(sid)
    \/ \E p \in Calls, cred \in Credentials, bytes \in SidBytes :
          RetrieveResults(p, cred, bytes)
    \/ \E p \in Calls : RetrieveResume(p)
    \/ \E p \in Calls, sid \in Sids : AbortComputation(p, sid)

(***************************************************************************)
(* Symbolic sessions (symbolic.rs).                                        *)
(***************************************************************************)
MaxOps == 3        \* operations of a source computation
NumRuns == 2       \* independent runs of run_computation, one session each
RingBits64 == 3    \* bits of a Ring64 word in the model (u64 in the source)
RingBits128 == 4   \* bits of a Ring128 word in the model (u128 in the source)
MaxOperands == 3   \* operands of a variadic kernel
MaxThreads == 3    \* threads calling into the shared session

Runs == 1..NumRuns
Threads == 1..MaxThreads
\* The session the threads share.
Shared == 1

HostPlacement(r) == [kind |-> "Host", owners |-> <<r>>]
ReplicatedPlacement(o) == [kind |-> "Replicated", owners |-> o]
HostPlcs == {HostPlacement("alice"), HostPlacement("bob")}
RepPlcs == { ReplicatedPlacement(<<"alice", "bob", "carole">>),
             ReplicatedPlacement(<<"bob", "carole", "alice">>) }

\* computation::Operation
Operation(name, kind, inputs, plc) ==
    [name |-> name, kind |-> kind, inputs |-> inputs, placement |-> plc]

\* SymbolicHandle { op, plc }
SymbolicHandle(op, plc) == [op |-> op, plc |-> plc]

\* Symbolic::Symbolic(handle) and Symbolic::Concrete(value made of handles)
Symbolic(h) == [tag |-> "Symbolic", op |-> h.op, plc |-> h.plc, parts |-> <<>>]
Concrete(parts, plc) == [tag |-> "Concrete", op |-> "", plc |-> plc, parts |-> parts]

NoSetup == [keys |-> <<>>]
\* RepSetup { keys }
RepSetup(keys) == [keys |-> keys]

\* SymbolicSessionState::default()
DefaultState == [ops |-> <<>>, replicated_keys |-> [plc \in RepPlcs |-> NoSetup]]

\* A name taken after the push: the first operation is op_1.
OpNameAfterPush(st) == "op_" \o ToString(Len(st.ops) + 1)

\* A name drawn from a counter that another live session advances too.
OpNameProcessWide(st) == "op_" \o ToString(Len(st.ops) + Len(state[Shared].ops))

\* format!("op_{}", state.ops.len())
OpName(st) == "op_" \o ToString(Len(st.ops))

\* An insertion at the front of the list instead of a push.
add_operation_front(st, operator, operands, plc) ==
    LET op_name == OpName(st) IN
    [state |-> [st EXCEPT !.ops = <<Operation(op_name, operator, operands, plc)>> \o @],
     handle |-> SymbolicHandle(op_name, plc)]

\* SymbolicSession::add_operation, under the write lock: the new state and the
\* handle it returns.
add_operation(st, operator, operands, plc) ==
    LET op_name == OpName(st) IN
    [state |-> [st EXCEPT !.ops = Append(@, Operation(op_name, operator, operands, plc))],
     handle |-> SymbolicHandle(op_name, plc)]

\* The i-th key of ReplicatedPlacement::gen_setup: a PrfKeyGen on the i-th owner.
gen_key(st, plc, i) == add_operation(st, "PrfKeyGen", <<>>, HostPlacement(plc.owners[i]))

\* ReplicatedPlacement::gen_setup(sess): three keys, one per owner.
gen_setup(st, plc) ==
    LET k1 == gen_key(st, plc, 1)
        k2 == gen_key(k1.state, plc, 2)
        k3 == gen_key(k2.state, plc, 3)
    IN  [state |-> k3.state, setup |-> RepSetup(<<k1.handle, k2.handle, k3.handle>>)]

\* An insert that replaces what the cache holds.
InsertOverwrite(keys, plc, new_setup) == [keys EXCEPT ![plc] = new_setup]

\* replicated_keys.entry(plc).or_insert_with(|| Arc::new(new_setup))
OrInsertWith(keys, plc, new_setup) ==
    IF keys[plc] # NoSetup THEN keys ELSE [keys EXCEPT ![plc] = new_setup]

\* SymbolicSession::setup run by one thread without interruption.
setup(st, plc) ==
    IF st.replicated_keys[plc] # NoSetup
    THEN [state |-> st, setup |-> st.replicated_keys[plc]]
    ELSE LET g == gen_setup(st, plc)
             keys == OrInsertWith(g.state.replicated_keys, plc, g.setup)
         IN  [state |-> [g.state EXCEPT !.replicated_keys = keys], setup |-> keys[plc]]

(***************************************************************************)
(* Kernels of the symbolic session and DefaultSymbolicStrategy::execute.   *)
(***************************************************************************)
HostKinds == {"Input", "Add", "Output", "Mux", "AddN"}
RejectedKinds == {"Send", "Receive"}

\* The operators whose kernel is Kernel::Variadic.
VariadicKinds == {"AddN"}

KernelArity(kind) ==
    CASE kind \in {"Input", "Receive"} -> 0
      [] kind \in {"Output", "Send", "Share"} -> 1
      [] kind = "Mux" -> 3
      [] OTHER -> 2

\* Operands handed over in the order they are popped: the last one as x0.
PoppedArgsReversed(operands, n) == [i \in 1..n |-> operands[Len(operands) + 1 - i]]

\* operands.pop() n times, the first pop bound to x(n-1), the last to x0: the
\* arguments x0 .. x(n-1) of the closure.
PoppedArgs(operands, n) == [i \in 1..n |-> operands[Len(operands) - n + i]]

\* Send and Receive compiled like the host kernels that register themselves.
CompileSendAsHost(kind, plc) ==
    IF (kind \in HostKinds \cup RejectedKinds /\ plc.kind = "Host")
       \/ (kind = "Share" /\ plc.kind = "Replicated")
    THEN [ok |-> TRUE, variant |-> "", err |-> ""]
    ELSE [ok |-> FALSE, variant |-> "UnimplementedOperator", err |-> kind]

\* DispatchKernel::compile for Operator: the kernel, or the error (its variant
\* and its message).
Compile(kind, plc) ==
    IF kind \in RejectedKinds
    THEN [ok |-> FALSE, variant |-> "Compilation",
          err |-> kind \o "Op not supported on symbolic sessions"]
    ELSE IF (kind \in HostKinds /\ plc.kind = "Host") \/ (kind = "Share" /\ plc.kind = "Replicated")
    THEN [ok |-> TRUE, variant |-> "", err |-> ""]
    ELSE [ok |-> FALSE, variant |-> "UnimplementedOperator", err |-> kind]

NoValue == [tag |-> "none", op |-> "", plc |-> HostPlacement(""), parts |-> <<>>]

\* A host kernel registers itself as one operation on the handles of its operands.
HostKernel(st, kind, plc, operands) ==
    LET a == add_operation(st, kind, [i \in 1..Len(operands) |-> operands[i].op], plc)
    IN  [ok |-> TRUE, panic |-> FALSE, variant |-> "", err |-> "", state |-> a.state,
         value |-> Symbolic(a.handle)]

\* The share kernel decomposes: it takes the setup of the placement, derives a
\* seed from its first key on the first owner, and returns a concrete value
\* made of handles.
ShareKernel(st, plc, operands) ==
    LET s == setup(st, plc)
        a == add_operation(s.state, "DeriveSeed", <<s.setup.keys[1].op>>,
                           HostPlacement(plc.owners[1]))
    IN  [ok |-> TRUE, panic |-> FALSE, variant |-> "", err |-> "", state |-> a.state,
         value |-> Concrete(<<SymbolicHandle(operands[1].op, operands[1].plc), a.handle>>, plc)]

\* DefaultSymbolicStrategy::execute
Execute(st, kind, plc, operands) ==
    LET k == Compile(kind, plc) IN
    IF ~k.ok
    THEN [ok |-> FALSE, panic |-> FALSE, variant |-> k.variant, err |-> k.err,
          state |-> st, value |-> NoValue]
    ELSE IF kind \in VariadicKinds THEN HostKernel(st, kind, plc, operands)
    ELSE IF Len(operands) # KernelArity(kind)  \* assert_eq!
    THEN [ok |-> FALSE, panic |-> TRUE, variant |-> "", err |-> "assertion failed",
          state |-> st, value |-> NoValue]
    ELSE LET args == PoppedArgs(operands, KernelArity(kind)) IN
         IF kind = "Share" THEN ShareKernel(st, plc, args)
         ELSE HostKernel(st, kind, plc, args)

\* Placed for Symbolic<T>: the placement of the handle, or of the concrete value.
placement(x) == x.plc

\* The place of the concrete type: the value re-homed, its parts kept.
PlaceInner(plc, x) == Concrete(x.parts, plc)

\* A place that hands every value back as it is.
place_keep(plc, x) == x

\* PlacementPlace<S, Symbolic<T>> for P :: place
place(plc, x) ==
    IF placement(x) = plc THEN x
    ELSE IF x.tag = "Concrete" THEN PlaceInner(plc, x)
    ELSE Symbolic(SymbolicHandle(x.op, plc))

(***************************************************************************)
(* Source computations: names unique, every input a prior operation, arity *)
(* and placement as the operator declares.                                 *)
(***************************************************************************)
SrcName(i) == "x_" \o ToString(i)

\* The operations that may follow `prefix` in a well-formed computation.
NextOps(prefix) ==
    LET name == SrcName(Len(prefix) + 1)
        hostValues == {prefix[j].name : j \in {j \in 1..Len(prefix) : prefix[j].kind \in {"Input", "Add"}}}
    IN  {Operation(name, kind, <<>>, h) : kind \in {"Input", "Receive"}, h \in HostPlcs}
        \cup {Operation(name, "Add", <<a, b>>, h) : a \in hostValues, b \in hostValues, h \in HostPlcs}
        \cup {Operation(name, kind, <<a>>, h) : kind \in {"Output", "Send"}, a \in hostValues, h \in HostPlcs}
        \cup {Operation(name, "Share", <<a>>, r) : a \in hostValues, r \in RepPlcs}

RECURSIVE ComputationsOfLen(_)
ComputationsOfLen(n) ==
    IF n = 0 THEN {<<>>}
    ELSE UNION {{Append(c, op) : op \in NextOps(c)} : c \in ComputationsOfLen(n - 1)}

Computations == UNION {ComputationsOfLen(n) : n \in 0..MaxOps}

(***************************************************************************)
(* SymbolicExecutor::run_computation (symbolic.rs 403-435).                *)
(***************************************************************************)
\* A run: its position in the walk, its environment, and what it returned: the
\* operations of a Computation, or an error (its variant and the pieces of text
\* its message is formatted from).
NoRun == [pc |-> "idle", idx |-> 0, env |-> EmptyMap, result |-> <<>>, variant |-> "",
          err |-> <<>>]
NewRun == [pc |-> "walking", idx |-> 1, env |-> EmptyMap, result |-> <<>>, variant |-> "",
           err |-> <<>>]
NoThread == [pc |-> "idle", call |-> "none", kind |-> "", inputs |-> <<>>,
             plc |-> HostPlacement(""), keys |-> <<>>, ret |-> <<>>,
             variant |-> "", err |-> "", holds |-> "none", arg |-> <<>>]

MsgLowering == "SymbolicSession failed to lower computation due to an error: "

\* One turn of the loop over computation.operations.
RunStep(r) ==
    /\ run[r].pc = "walking"
    /\ run[r].idx <= Len(computation)
    /\ LET op == computation[run[r].idx]
           operands == [i \in 1..Len(op.inputs) |-> run[r].env[op.inputs[i]]]
           res == Execute(state[r], op.kind, op.placement, operands)
       IN  /\ state' = [state EXCEPT ![r] = res.state]
           /\ IF res.ok
              THEN run' = [run EXCEPT ![r].idx = @ + 1,
                                      ![r].env = MapInsert(@, op.name, res.value)]
              ELSE IF res.panic
              THEN run' = [run EXCEPT ![r].pc = "panicked", ![r].err = <<res.err>>]
              ELSE run' = [run EXCEPT ![r].pc = "failed", ![r].variant = "Compilation",
                                      ![r].err = <<MsgLowering, res.err>>]
    /\ UNCHANGED <<chorVars, kerVars, computation, thr>>

\* The operations of the returned Computation.
LiftOps(ops) == ops

\* After the walk: Arc::try_unwrap(session.state), Ok(Computation { operations }).
RunFinish(r) ==
    /\ run[r].pc = "walking"
    /\ run[r].idx > Len(computation)
    /\ run' = [run EXCEPT ![r].pc = "done", ![r].result = LiftOps(state[r].ops)]
    /\ UNCHANGED <<chorVars, kerVars, computation, state, thr>>

(***************************************************************************)
(* Threads sharing one session: setup (symbolic.rs 218-240) and            *)
(* add_operation (162-188).                                                *)
(***************************************************************************)
Starts(t) == thr[t].pc = "idle" /\ (IF t = 1 THEN TRUE ELSE thr[t - 1].pc # "idle")

\* state.write() of a parking_lot RwLock: granted when no guard, read or write,
\* is alive; the lock is not reentrant.
CanWrite == \A u \in Threads : thr[u].holds = "none"

\* state.read(): granted when no write guard is alive.
CanRead == \A u \in Threads : thr[u].holds # "write"

\* A setup that keeps its read guard alive while it generates.
GuardKeptOnMiss == "read"

\* drop(state): the read guard of the lookup is released before gen_setup.
GuardAfterMiss == "none"

\* A setup that generates a fresh setup whatever the cache holds.
SetupAlwaysGenerates(t, plc) ==
    /\ Starts(t)
    /\ CanRead
    /\ thr' = [thr EXCEPT ![t] = [NoThread EXCEPT !.pc = "gen", !.call = "setup",
                                                  !.plc = plc, !.holds = GuardAfterMiss]]
    /\ UNCHANGED <<chorVars, kerVars, computation, state, run>>

\* setup: the lookup under the read lock. A hit returns the cached Arc; on a
\* miss the read lock is dropped and the thread goes on to gen_setup.
SetupLookup(t, plc) ==
    /\ Starts(t)
    /\ CanRead
    /\ LET cached == state[Shared].replicated_keys[plc] IN
       IF cached # NoSetup
       THEN thr' = [thr EXCEPT ![t] = [NoThread EXCEPT !.pc = "done", !.call = "setup",
                                                       !.plc = plc, !.ret = cached]]
       ELSE thr' = [thr EXCEPT ![t] = [NoThread EXCEPT !.pc = "gen", !.call = "setup",
                                                       !.plc = plc,
                                                       !.holds = GuardAfterMiss]]
    /\ UNCHANGED <<chorVars, kerVars, computation, state, run>>

\* gen_setup: the next key, registered through add_operation (write lock).
GenSetupKey(t) ==
    /\ thr[t].pc = "gen"
    /\ CanWrite
    /\ LET k == gen_key(state[Shared], thr[t].plc, Len(thr[t].keys) + 1)
           keys == Append(thr[t].keys, k.handle)
       IN  /\ state' = [state EXCEPT ![Shared] = k.state]
           /\ thr' = [thr EXCEPT ![t].keys = keys,
                                 ![t].pc = IF Len(keys) = 3 THEN "insert" ELSE "gen"]
    /\ UNCHANGED <<chorVars, kerVars, computation, run>>

\* A setup that takes its keys back out of the list when it loses the insert.
SetupInsertWithdraws(t) ==
    /\ thr[t].pc = "insert"
    /\ CanWrite
    /\ LET cache == state[Shared].replicated_keys
           lost == cache[thr[t].plc] # NoSetup
           Mine(o) == \E i \in 1..Len(thr[t].keys) : thr[t].keys[i].op = o.name
           keys == OrInsertWith(cache, thr[t].plc, RepSetup(thr[t].keys))
       IN  /\ state' = [state EXCEPT
                           ![Shared].replicated_keys = keys,
                           ![Shared].ops = IF lost THEN SelectSeq(@, LAMBDA o : ~Mine(o))
                                                   ELSE @]
           /\ thr' = [thr EXCEPT ![t].pc = "done", ![t].ret = keys[thr[t].plc]]
    /\ UNCHANGED <<chorVars, kerVars, computation, run>>

\* setup: the insert-if-missing under the write lock; the stored Arc is returned.
SetupInsert(t) ==
    /\ thr[t].pc = "insert"
    /\ CanWrite
    /\ LET keys == OrInsertWith(state[Shared].replicated_keys, thr[t].plc, RepSetup(thr[t].keys))
       IN  /\ state' = [state EXCEPT ![Shared].replicated_keys = keys]
           /\ thr' = [thr EXCEPT ![t].pc = "done", ![t].ret = keys[thr[t].plc]]
    /\ UNCHANGED <<chorVars, kerVars, computation, run>>

\* A thread registers one operation.
AddOperation(t, kind, plc) ==
    /\ Starts(t)
    /\ CanWrite
    /\ LET a == add_operation(state[Shared], kind, <<>>, plc) IN
       /\ state' = [state EXCEPT ![Shared] = a.state]
       /\ thr' = [thr EXCEPT ![t] = [NoThread EXCEPT !.pc = "done", !.call = "add",
                                                     !.kind = kind, !.plc = plc,
                                                     !.ret = a.handle]]
    /\ UNCHANGED <<chorVars, kerVars, computation, run>>

(***************************************************************************)
(* Threads calling execute (symbolic.rs 203-213, 360-395) and              *)
(* add_operation (162-188) on one session. add_operation does all its work *)
(* under the write lock: a call waits for the lock, then names, pushes and *)
(* returns in one step.                                                    *)
(***************************************************************************)
ExecKinds == RejectedKinds \cup {"Input"}
AnyPlcs == HostPlcs \cup RepPlcs
OperandValues == {Symbolic(SymbolicHandle("op_0", h)) : h \in HostPlcs}
OperandLists ==
    {<<>>} \cup {<<a>> : a \in OperandValues}
           \cup {<<a, b>> : a \in OperandValues, b \in OperandValues}
EmitKinds == {"Input", "Output"}
EmitInputs == {<<>>, <<"op_0">>}

\* Session::execute on the shared session, by thread t.
SessionExecute(t, kind, plc, operands) ==
    /\ Starts(t)
    /\ LET res == Execute(state[Shared], kind, plc, operands) IN
       /\ state' = [state EXCEPT ![Shared] = res.state]
       /\ thr' = [thr EXCEPT ![t] =
                    [NoThread EXCEPT !.pc = IF res.ok THEN "done"
                                            ELSE IF res.panic THEN "panicked" ELSE "failed",
                                     !.call = "execute", !.kind = kind,
                                     !.variant = res.variant, !.err = res.err]]
    /\ UNCHANGED <<chorVars, kerVars, computation, run>>

\* The threads that can make the one call on a session nobody has used yet.
FreeThreads == IF \A u \in Threads : thr[u].pc = "idle" THEN Threads ELSE {}

\* One call of Session::execute on a session no other thread is using.
DispatchKinds == HostKinds \cup {"Send"}
DispatchValues == {Symbolic(SymbolicHandle("op_" \o ToString(i), h)) : i \in 0..1, h \in HostPlcs}
DispatchOperands ==
    UNION {[1..n -> DispatchValues] : n \in 0..MaxOperands}

Dispatch(t, kind, plc, operands) ==
    /\ t \in FreeThreads
    /\ LET res == Execute(state[Shared], kind, plc, operands) IN
       /\ state' = [state EXCEPT ![Shared] = res.state]
       /\ thr' = [thr EXCEPT ![t] =
                    [NoThread EXCEPT !.pc = IF res.ok THEN "done"
                                            ELSE IF res.panic THEN "panicked" ELSE "failed",
                                     !.call = "execute", !.kind = kind, !.plc = plc,
                                     !.arg = operands, !.ret = res.value,
                                     !.variant = res.variant, !.err = res.err]]
    /\ UNCHANGED <<chorVars, kerVars, computation, run>>

\* One call of plc.place(sess, x); the placement type of a value is that of
\* the target.
PlaceValues ==
    {Symbolic(SymbolicHandle("op_0", p)) : p \in AnyPlcs}
        \cup {Concrete(<<SymbolicHandle("op_0", HostPlacement(p.owners[1]))>>, p) : p \in AnyPlcs}

Place(t, plc, x) ==
    /\ t \in FreeThreads
    /\ plc.kind = x.plc.kind
    /\ thr' = [thr EXCEPT ![t] = [NoThread EXCEPT !.pc = "done", !.call = "place",
                                                  !.plc = plc, !.arg = <<x>>,
                                                  !.ret = place(plc, x)]]
    /\ UNCHANGED <<chorVars, kerVars, computation, state, run>>

\* add_operation is called: the thread waits for the write lock.
EmitCall(t, kind, inputs, plc) ==
    /\ Starts(t)
    /\ thr' = [thr EXCEPT ![t] = [NoThread EXCEPT !.pc = "adding", !.call = "add",
                                                  !.kind = kind, !.inputs = inputs,
                                                  !.plc = plc]]
    /\ UNCHANGED <<chorVars, kerVars, computation, state, run>>

\* The thread holds the write lock: name, push, handle.
EmitAppend(t) ==
    /\ thr[t].pc = "adding"
    /\ CanWrite
    /\ LET a == add_operation(state[Shared], thr[t].kind, thr[t].inputs, thr[t].plc) IN
       /\ state' = [state EXCEPT ![Shared] = a.state]
       /\ thr' = [thr EXCEPT ![t].pc = "done", ![t].ret = a.handle]
    /\ UNCHANGED <<chorVars, kerVars, computation, run>>

(***************************************************************************)
(* Host kernels (host/ops.rs, floatingpoint/ops.rs). Ring words have       *)
(* RingBits64 (Ring64, u64) or RingBits128 (Ring128, u128) bits: the model *)
(* keeps the wrapping arithmetic at a width TLC can enumerate. A tensor is *)
(* its data, a sequence along the leading axis, and its placement.         *)
(***************************************************************************)
RingWidths == {RingBits64, RingBits128}
Words(w) == 0..(2^w - 1)
\* The words where the signed and the unsigned range wrap.
EdgeWords(w) == {0, 1, 2^(w - 1) - 1, 2^(w - 1), 2^w - 1}

\* `item as i64` / `item as i128`
AsSigned(x, w) == IF x >= 2^(w - 1) THEN x - 2^w ELSE x
\* `-1_i64 as u64` / `-1_i128 as u128`
MinusOne(w) == 2^w - 1
\* Wrapping<T> subtraction, addition and right shift
WrappingSub(x, y, w) == (x - y + 2^w) % 2^w
WrappingAdd(x, y, w) == (x + y) % 2^w
Shr(x, i) == x \div 2^i

\* HostRingTensor(data, plc), HostBitTensor(data, plc), HostTensor(data, plc)
HostTensor(data, plc) == [data |-> data, plc |-> plc]
\* FloatTensor::Host(v) and FloatTensor::Mirrored3(v)
FloatTensor(variant, v) == [variant |-> variant, v |-> v]

\* What a kernel call comes to: Ok(value), Err(error) or a panic.
KernelOk(v) == [tag |-> "Ok", value |-> v, variant |-> "", msg |-> ""]
KernelErr(variant, msg) == [tag |-> "Err", value |-> <<>>, variant |-> variant, msg |-> msg]
KernelPanic(msg) == [tag |-> "Panic", value |-> <<>>, variant |-> "", msg |-> msg]

\* SendOp::kernel and ReceiveOp::kernel: todo!()
SendReceiveKernel(op, plc) == KernelPanic("not yet implemented")

\* RingFixedpointDecodeOp::float32_kernel: unimplemented!()
float32_kernel(plc, x) == KernelPanic("not implemented")

\* The float host kernels by what their match does with FloatTensor::Mirrored3.
MirroredDemirrored == {"Identity", "Mux"}
MirroredReturnsErr ==
    {"Sigmoid", "Relu", "Greater", "Log", "Log2", "Sqrt", "Exp", "Slice", "Maximum", "Squeeze"}
MirroredUnimplemented ==
    {"Mean", "Cast", "Sum", "Softmax", "AtLeast2D", "Abs", "Add", "AddN", "Sub", "Mul", "Div",
     "Dot", "Less", "Reshape", "IndexAxis", "ExpandDims", "Concat", "Transpose", "Inverse",
     "Save", "Shape", "Output"}
FloatOps == MirroredDemirrored \cup MirroredReturnsErr \cup MirroredUnimplemented
FloatArities(op) ==
    IF op \in {"AddN", "Concat", "Maximum"} THEN 0..MaxOperands
    ELSE IF op \in {"Add", "Sub", "Mul", "Div", "Dot", "Less", "Greater", "Mux"} THEN {2}
    ELSE {1}

\* <Op>::float_host_kernel / float_kernel on FloatTensor operands: the operands
\* are matched in turn; the Host arms go on to the host kernel of the operator.
float_host_kernel(op, plc, xs) ==
    IF op = "AddN" /\ xs = <<>>
    THEN KernelErr("InvalidArgument", "cannot add_n on empty array of tensors")
    ELSE IF op \notin MirroredDemirrored /\ \E i \in 1..Len(xs) : xs[i].variant = "Mirrored3"
    THEN IF op \in MirroredReturnsErr
         THEN KernelErr("UnimplementedOperator",
                        (IF op = "Greater" THEN op ELSE op \o "Op") \o " @ Mirrored3Placement")
         ELSE KernelPanic("not implemented")
    ELSE KernelOk(FloatTensor("Host", [op |-> op, plc |-> plc, xs |-> xs]))

\* LessOp::host_ring64_kernel / host_ring128_kernel: the sign of the wrapping
\* difference.
host_ring_less_kernel(w, plc, x, y) ==
    KernelOk(HostTensor([j \in 1..Len(x.data) |->
                            IF AsSigned(WrappingSub(x.data[j], y.data[j], w), w) < 0
                            THEN 1 ELSE 0], plc))

\* A sign that maps zero to -1.
ring_sign_kernel_strict(w, plc, x) ==
    KernelOk(HostTensor([j \in 1..Len(x.data) |->
                            IF AsSigned(x.data[j], w) <= 0 THEN MinusOne(w) ELSE 1], plc))

\* SignOp::ring64_kernel / ring128_kernel
ring_sign_kernel(w, plc, x) ==
    KernelOk(HostTensor([j \in 1..Len(x.data) |->
                            IF AsSigned(x.data[j], w) < 0 THEN MinusOne(w) ELSE 1], plc))

\* A decomposition that stacks the most significant bit first.
bit_dec_kernel_msb(w, plc, x) ==
    KernelOk(HostTensor([i \in 1..w |->
                            [j \in 1..Len(x.data) |-> Shr(x.data[j], w - i) % 2]], plc))

\* HostBitDecOp::{ring64,ring128,bit64,bit128}_kernel: (x >> i) & ones for i in
\* 0..BitLength, stacked on axis 0.
bit_dec_kernel(w, plc, x) ==
    KernelOk(HostTensor([i \in 1..w |->
                            [j \in 1..Len(x.data) |-> Shr(x.data[j], i - 1) % 2]], plc))

\* BitExtractOp::kernel64 / kernel128: ((x >> bit_idx) & 1) as u8
bit_extract_kernel(w, plc, bit_idx, x) ==
    KernelOk(HostTensor([j \in 1..Len(x.data) |-> Shr(x.data[j], bit_idx) % 2], plc))

\* A shift that rotates: the top slices of x come back at the low end.
shl_dim_kernel_rotate(plc, amount, bit_length, x) ==
    KernelOk(HostTensor([i \in 1..bit_length |->
                            x.data[((i - 1 - amount) % Len(x.data)) + 1]], plc))

\* HostShlDimOp::bit_kernel. index_axis panics past the leading axis of x;
\* ndarray::stack fails on an empty list of views.
shl_dim_kernel(plc, amount, bit_length, x) ==
    LET zero == [j \in 1..Len(x.data[1]) |-> 0] IN
    IF \E i \in 0..(bit_length - 1) : i >= amount /\ i - amount >= Len(x.data)
    THEN KernelPanic("index out of bounds")
    ELSE IF bit_length = 0
    THEN KernelErr("KernelError", "stack of no arrays")
    ELSE KernelOk(HostTensor([i \in 1..bit_length |->
                                IF i - 1 < amount THEN zero ELSE x.data[i - amount]], plc))

\* xs[1..].iter().fold(base, |acc, item| acc + &item.0), elementwise
RECURSIVE FoldAdd(_, _, _, _)
FoldAdd(acc, xs, k, w) ==
    IF k > Len(xs) THEN acc
    ELSE FoldAdd([j \in 1..Len(acc) |->
                     IF w = 0 THEN acc[j] + xs[k].data[j]
                     ELSE WrappingAdd(acc[j], xs[k].data[j], w)], xs, k + 1, w)

\* A sum that leaves the base out of the fold.
add_n_host_kernel_skip(w, plc, xs) ==
    IF xs = <<>>
    THEN KernelErr("InvalidArgument", "cannot reduce on empty array of tensors")
    ELSE KernelOk(HostTensor(FoldAdd([j \in 1..Len(xs[1].data) |-> 0], xs, 2, w), plc))

\* AddNOp::host_kernel (ring tensors, width w) and AddNOp::host_float_kernel
\* (host float tensors, w = 0: no wrapping).
add_n_host_kernel(w, plc, xs) ==
    IF xs = <<>>
    THEN KernelErr("InvalidArgument", "cannot reduce on empty array of tensors")
    ELSE KernelOk(HostTensor(FoldAdd(xs[1].data, xs, 2, w), plc))

\* No kernel is invoked.
NoKernel == [pc |-> "idle", op |-> "none", w |-> 0, plc |-> HostPlacement(""), args |-> <<>>,
             out |-> KernelOk(<<>>)]

SymIdle ==
    /\ kernel = NoKernel
    /\ computation = <<>>
    /\ state = [r \in Runs |-> DefaultState]
    /\ run = [r \in Runs |-> NoRun]
    /\ thr = [t \in Threads |-> NoThread]

ChorIdle ==
    /\ choreographer = NoIdentity
    /\ shard = [s \in Sids |-> 1]
    /\ result_stores = [s \in Sids |-> Absent]
    /\ pc = [p \in Calls |-> "idle"]
    /\ req = [p \in Calls |-> [kind |-> "none", sender |-> NoIdentity, sid |-> BadSidBytes]]
    /\ resp = [p \in Calls |-> NoResponse]
    /\ outputs = [s \in Sids |-> EmptyMap]
    /\ task = [s \in Sids |-> NoTask]

\* Two runs of run_computation on one computation.
ExecutorInit ==
    /\ ChorIdle
    /\ kernel = NoKernel
    /\ computation \in Computations
    /\ state = [r \in Runs |-> DefaultState]
    /\ run = [r \in Runs |-> NewRun]
    /\ thr = [t \in Threads |-> NoThread]

ExecutorNext ==
    \/ \E r \in Runs : RunStep(r)
    \/ \E r \in Runs : RunFinish(r)

ExecutorSpec == ExecutorInit /\ [][ExecutorNext]_vars

\* Threads calling setup and add_operation on one session.
SessionInit == ChorIdle /\ SymIdle

SessionNext ==
    \/ \E t \in Threads, plc \in RepPlcs : SetupLookup(t, plc)
    \/ \E t \in Threads : GenSetupKey(t)
    \/ \E t \in Threads : SetupInsert(t)
    \/ \E t \in Threads, plc \in HostPlcs : AddOperation(t, "Input", plc)

SessionSpec == SessionInit /\ [][SessionNext]_vars

\* Every thread has returned from its call: the session state is unwrapped and
\* its operations become the Computation (symbolic.rs 429-433).
SessionLowered ==
    /\ \A t \in Threads : thr[t].pc = "done"
    /\ run[Shared].pc = "idle"
    /\ run' = [run EXCEPT ![Shared] =
                  [NoRun EXCEPT !.pc = "done", !.result = LiftOps(state[Shared].ops)]]
    /\ UNCHANGED <<chorVars, kerVars, computation, state, thr>>

LoweringNext == SessionNext \/ SessionLowered

LoweringSpec == SessionInit /\ [][LoweringNext]_vars

\* The lock is fair and key generation terminates: a thread that can take its
\* next step of setup eventually takes it.
SessionFairness ==
    \A t \in Threads : WF_vars(GenSetupKey(t)) /\ WF_vars(SetupInsert(t))

SessionFairSpec == SessionInit /\ [][SessionNext]_vars /\ SessionFairness

\* Threads calling execute and add_operation on one session, which starts
\* fresh or with the setup of one placement cached.
SessionStates == {DefaultState} \cup {setup(DefaultState, plc).state : plc \in RepPlcs}

EmitInit ==
    /\ ChorIdle
    /\ kernel = NoKernel
    /\ computation = <<>>
    /\ \E st \in SessionStates : state = [r \in Runs |-> IF r = Shared THEN st ELSE DefaultState]
    /\ run = [r \in Runs |-> NoRun]
    /\ thr = [t \in Threads |-> NoThread]

EmitNext ==
    \/ \E t \in Threads, kind \in ExecKinds, plc \in AnyPlcs, operands \in OperandLists :
          SessionExecute(t, kind, plc, operands)
    \/ \E t \in Threads, kind \in EmitKinds, inputs \in EmitInputs, plc \in HostPlcs :
          EmitCall(t, kind, inputs, plc)
    \/ \E t \in Threads : EmitAppend(t)

EmitSpec == EmitInit /\ [][EmitNext]_vars

\* Single calls of execute and place on a session that starts fresh or with
\* the setup of one placement cached.
DispatchNext ==
    \/ \E t \in FreeThreads, kind \in DispatchKinds, plc \in AnyPlcs,
          operands \in DispatchOperands : Dispatch(t, kind, plc, operands)
    \/ \E t \in FreeThreads, plc \in AnyPlcs, x \in PlaceValues : Place(t, plc, x)

DispatchSpec == EmitInit /\ [][DispatchNext]_vars

(***************************************************************************)
(* Kernel invocations: a kernel is called with arguments drawn from the    *)
(* sets below and returns, fails or panics.                                *)
(***************************************************************************)
KernelCall(op, w, plc, args) ==
    [pc |-> "called", op |-> op, w |-> w, plc |-> plc, args |-> args, out |-> KernelOk(<<>>)]

\* Tensors held on alice; the kernels are called for either host.
Held(data) == HostTensor(data, HostPlacement("alice"))
RingTensors(w) ==
    {Held(<<a>>) : a \in Words(w)} \cup {Held(<<a, b>>) : a \in EdgeWords(w), b \in EdgeWords(w)}
EdgeTensors(w) ==
    {Held(<<a>>) : a \in EdgeWords(w)} \cup {Held(<<a, MinusOne(w) - a>>) : a \in EdgeWords(w)}
FloatHostTensors == {Held(<<a>>) : a \in 0..1} \cup {Held(<<a, 1 - a>>) : a \in 0..1}
BitTensors ==
    UNION {{Held(d) : d \in [1..n -> {<<0>>, <<1>>}] \cup [1..n -> {<<0, 1>>, <<1, 1>>}]}
              : n \in 1..RingBits64}
FloatTensors == {FloatTensor("Host", 1), FloatTensor("Mirrored3", 1)}
\* Lists of at most MaxOperands tensors of one shape.
OperandsOf(T) ==
    UNION {{xs \in [1..n -> T] : \A i \in 1..n : Len(xs[i].data) = Len(xs[1].data)}
              : n \in 0..MaxOperands}

KernelInit ==
    /\ ChorIdle
    /\ computation = <<>>
    /\ state = [r \in Runs |-> DefaultState]
    /\ run = [r \in Runs |-> NoRun]
    /\ thr = [t \in Threads |-> NoThread]
    /\ \E plc \in HostPlcs :
          \/ \E op \in {"Send", "Receive"} : kernel = KernelCall(op, 0, plc, <<>>)
          \/ \E x \in RingTensors(RingBits64) :
                kernel = KernelCall("RingFixedpointDecode", RingBits64, plc, [x |-> x])
          \/ \E op \in FloatOps : \E n \in FloatArities(op) : \E xs \in [1..n -> FloatTensors] :
                kernel = KernelCall(op, 0, plc, [xs |-> xs])
          \/ \E w \in RingWidths : \E x \in RingTensors(w), y \in RingTensors(w) :
                /\ Len(x.data) = Len(y.data)
                /\ kernel = KernelCall("LessRing", w, plc, [x |-> x, y |-> y])
          \/ \E w \in RingWidths : \E x \in RingTensors(w) :
                \/ kernel = KernelCall("Sign", w, plc, [x |-> x])
                \/ kernel = KernelCall("BitDec", w, plc, [x |-> x])
                \/ \E bit_idx \in 0..(w - 1) :
                      kernel = KernelCall("BitExtract", w, plc, [bit_idx |-> bit_idx, x |-> x])
          \/ \E x \in BitTensors : \E amount \in 0..(RingBits64 + 1), bit_length \in 0..RingBits64 :
                kernel = KernelCall("ShlDim", 0, plc,
                                    [amount |-> amount, bit_length |-> bit_length, x |-> x])
          \/ \E w \in RingWidths : \E xs \in OperandsOf(EdgeTensors(w)) :
                kernel = KernelCall("AddNHost", w, plc, [xs |-> xs])
          \/ \E xs \in OperandsOf(FloatHostTensors) :
                kernel = KernelCall("AddNHost", 0, plc, [xs |-> xs])

\* The call comes to `out`.
Returned(out) ==
    /\ kernel' = [kernel EXCEPT !.pc = IF out.tag = "Panic" THEN "panicked" ELSE "returned",
                                !.out = out]
    /\ UNCHANGED <<chorVars, symVars>>

Called(ops) == kernel.pc = "called" /\ kernel.op \in ops

HostSendReceive ==
    /\ Called({"Send", "Receive"})
    /\ Returned(SendReceiveKernel(kernel.op, kernel.plc))

FixedpointDecode32 ==
    /\ Called({"RingFixedpointDecode"})
    /\ Returned(float32_kernel(kernel.plc, kernel.args.x))

FloatHostKernel ==
    /\ Called(FloatOps)
    /\ Returned(float_host_kernel(kernel.op, kernel.plc, kernel.args.xs))

LessRing ==
    /\ Called({"LessRing"})
    /\ Returned(host_ring_less_kernel(kernel.w, kernel.plc, kernel.args.x, kernel.args.y))

SignRing ==
    /\ Called({"Sign"})
    /\ Returned(ring_sign_kernel(kernel.w, kernel.plc, kernel.args.x))

HostBitDec ==
    /\ Called({"BitDec"})
    /\ Returned(bit_dec_kernel(kernel.w, kernel.plc, kernel.args.x))

BitExtract ==
    /\ Called({"BitExtract"})
    /\ Returned(bit_extract_kernel(kernel.w, kernel.plc, kernel.args.bit_idx, kernel.args.x))

HostShlDim ==
    /\ Called({"ShlDim"})
    /\ Returned(shl_dim_kernel(kernel.plc, kernel.args.amount, kernel.args.bit_length,
                               kernel.args.x))

AddNHost ==
    /\ Called({"AddNHost"})
    /\ Returned(add_n_host_kernel(kernel.w, kernel.plc, kernel.args.xs))

KernelNext ==
    \/ HostSendReceive
    \/ FixedpointDecode32
    \/ FloatHostKernel
    \/ LessRing
    \/ SignRing
    \/ HostBitDec
    \/ BitExtract
    \/ HostShlDim
    \/ AddNHost

KernelSpec == KernelInit /\ [][KernelNext]_vars

Init == ChorInit /\ SymIdle
Next == ChorNext
Spec == Init /\ [][Next]_vars

(***************************************************************************)
(* The choreography server under fair scheduling: the tokio runtime keeps   *)
(* polling the detached task and wakes the awaiters of a cell once it is    *)
(* set. All session ids share one shard, the case in which a Ref held       *)
(* across an await blocks the most.                                         *)
(***************************************************************************)
ChorFairness ==
    /\ \A sid \in Sids : WF_vars(TaskAwaitOutput(sid)) /\ WF_vars(TaskSetResults(sid))
    /\ \A p \in Calls : WF_vars(RetrieveResume(p))

FairInit == ChorIdle /\ SymIdle

FairSpec == FairInit /\ [][Next]_vars /\ ChorFairness

(***************************************************************************)
(* Properties of the choreography server.                                  *)
(***************************************************************************)
\* Authorized launch calls whose session id decoded to sid.
LaunchersOf(sid) == {p \in Calls : req[p].kind = "launch" /\ req[p].sid = sid}

\* The call found the entry vacant and inserted its cell.
PassedOccupancy(p) ==
    /\ req[p].kind = "launch"
    /\ \/ pc[p] \in {"executing", "spawned"}
       \/ /\ pc[p] = "done"
          /\ resp[p].msg \notin AuthMessages \cup {MsgBadSessionId, MsgSessionExists}

SingleLaunchInv ==
    \A sid \in Sids :
        /\ Cardinality({p \in LaunchersOf(sid) : PassedOccupancy(p)}) <= 1
        /\ \A p \in LaunchersOf(sid) :
              (pc[p] = "done" /\ ~PassedOccupancy(p)) => resp[p] = Aborted(MsgSessionExists)

RejectedLaunchLeavesCells ==
    \A p \in Calls :
        (pc[p] = "entry" /\ pc'[p] = "done" /\ resp'[p].msg = MsgSessionExists)
            => /\ result_stores[req[p].sid] # Absent
               /\ result_stores' = result_stores

\* C1: among the launch calls that reach the occupancy check with one session
\* id, in any interleaving, at most one finds the entry vacant and inserts a
\* cell; every other one fails with Aborted, "session id exists already ..",
\* and its step leaves the result store, hence the registered cell, as it was.
C1_SingleLaunch == []SingleLaunchInv /\ [][RejectedLaunchLeavesCells]_vars

C1_Witness ==
    \E p \in Calls, q \in Calls :
        /\ p # q
        /\ req[p].kind = "launch" /\ req[q].kind = "launch" /\ req[p].sid = req[q].sid
        /\ PassedOccupancy(p)
        /\ pc[q] = "done" /\ resp[q] = Aborted(MsgSessionExists)

\* The launch of sid completed and every output of sid has resolved to a value.
OutputsAllResolved(sid) ==
    /\ task[sid].pc # "none"
    /\ \A n \in DOMAIN outputs[sid] : outputs[sid][n].st = "ok"

\* What the task publishes for sid once every output has resolved.
Published(sid) == ComputationOutputs([n \in DOMAIN outputs[sid] |-> outputs[sid][n].v])

AwaitingEndsWithResults ==
    \A p \in Calls :
        pc[p] = "awaiting" =>
            \/ pc'[p] = "awaiting"
            \/ /\ pc'[p] = "done"
               /\ OutputsAllResolved(req[p].sid)
               /\ resp'[p] = OkResponse(Serialize(Published(req[p].sid)))

\* C2: a retrieve that found the cell of sid registered but empty stays
\* suspended until the cell is filled; once the outputs of sid have all
\* resolved it eventually returns the published results, and it never ends
\* with NotFound or with anything but the complete results.
C2_RetrieveCompletes ==
    /\ \A p \in Calls :
          (pc[p] = "awaiting" /\ OutputsAllResolved(req[p].sid))
              ~> (pc[p] = "done" /\ resp[p].status = "Ok")
    /\ [][AwaitingEndsWithResults]_vars

C2_Witness ==
    \E p \in Calls :
        /\ req[p].kind = "retrieve" /\ pc[p] = "done" /\ resp[p].status = "Ok"
        /\ DOMAIN outputs[req[p].sid] = OutputNames
        /\ resp[p].values = Serialize(Published(req[p].sid))
        /\ \E q \in Calls : q # p /\ pc[q] = "entry"

FilledCellInv ==
    \A sid \in Sids :
        IsFull(result_stores[sid]) =>
            /\ task[sid].pc = "done"
            /\ \A n \in DOMAIN outputs[sid] : outputs[sid][n].st = "ok"
            /\ result_stores[sid].value = Published(sid)
            /\ DOMAIN result_stores[sid].value.outputs = DOMAIN outputs[sid]
            /\ result_stores[sid].value.elapsed_time = "Some"

FilledCellStays ==
    \A sid \in Sids : IsFull(result_stores[sid]) => result_stores'[sid] = result_stores[sid]

\* C3: a cell is filled only when every output async-value of its session has
\* resolved, with exactly one entry per output name and elapsed_time present,
\* and a filled cell is never set again.
C3_CellFilledOnce == []FilledCellInv /\ [][FilledCellStays]_vars

C3_Witness ==
    \E sid \in Sids :
        /\ IsFull(result_stores[sid])
        /\ DOMAIN result_stores[sid].value.outputs = OutputNames

RetrieveOfUnknownSession ==
    \A p \in Calls :
        ( /\ pc[p] = "idle" /\ pc'[p] # "idle"
          /\ req'[p].kind = "retrieve"
          /\ req'[p].sid \in Sids
          /\ result_stores[req'[p].sid] = Absent )
            => /\ pc'[p] = "done"
               /\ resp'[p] = NotFound(MsgUnknownSession)
               /\ result_stores' = result_stores

\* C4: an authorized RetrieveResults for a session id that has no cell answers
\* NotFound in the step it arrives, without suspending, and leaves the result
\* store unchanged.
C4_UnknownSessionNotFound == [][RetrieveOfUnknownSession]_vars

C4_Witness ==
    \E p \in Calls :
        /\ req[p].kind = "retrieve" /\ pc[p] = "done"
        /\ resp[p] = NotFound(MsgUnknownSession)
        /\ result_stores[req[p].sid] = Absent
        /\ \E sid \in Sids : result_stores[sid] # Absent

\* The requests the authorization check is to accept.
AuthAccepts(expected, cred) ==
    \/ expected = NoIdentity /\ cred = NoIdentity
    \/ expected # NoIdentity /\ cred = expected

Rejected(p) == pc[p] = "done" /\ resp[p].msg \in AuthMessages

AuthorizationInv ==
    \A p \in Calls :
        req[p].kind \in {"launch", "retrieve"} =>
            /\ ~Rejected(p) <=> AuthAccepts(choreographer, req[p].sender)
            /\ Rejected(p) => resp[p].status = "Aborted"

RejectionLeavesStore ==
    \A p \in Calls :
        (pc[p] = "idle" /\ pc'[p] = "done" /\ resp'[p].msg \in AuthMessages)
            => result_stores' = result_stores

\* C5: a launch or retrieve request passes the authorization check iff no
\* choreographer is configured and it carries no identity, or the configured
\* choreographer is the identity it carries; every other request fails with
\* Aborted in a step that leaves the result store unchanged.
C5_Authorization == []AuthorizationInv /\ [][RejectionLeavesStore]_vars

C5_Witness ==
    /\ choreographer # NoIdentity
    /\ \E p \in Calls : Rejected(p) /\ req[p].sender = NoIdentity
    /\ \E p \in Calls : Rejected(p) /\ req[p].sender \notin {NoIdentity, choreographer, MalformedCert}
    /\ \E p \in Calls : req[p].kind = "launch" /\ PassedOccupancy(p)

\* C6: once AbortComputation(sid) has been handled, the cell of sid is gone,
\* the gathering task of sid is no longer running and no retrieve is left
\* awaiting the cell.
C6_AbortCancels ==
    \A p \in Calls :
        (req[p].kind = "abort" /\ pc[p] = "done") =>
            /\ result_stores[req[p].sid] = Absent
            /\ task[req[p].sid].pc # "gathering"
            /\ \A q \in Calls : ~(pc[q] = "awaiting" /\ req[q].sid = req[p].sid)

LaunchResponseLeavesCells ==
    \A p \in Calls :
        (req[p].kind = "launch" /\ pc[p] # "done" /\ pc'[p] = "done" /\ resp'[p].status = "Ok")
            => result_stores' = result_stores /\ pc[p] = "spawned"

OnlyTheTaskFills ==
    \A sid \in Sids :
        (~IsFull(result_stores[sid]) /\ IsFull(result_stores'[sid]))
            => task[sid].pc = "gathering" /\ task'[sid].pc = "done" /\ pc' = pc

\* C7: a launch whose task has been spawned can always answer: its response
\* waits neither for the cell nor for any output; the step that answers leaves
\* every cell as it is, and a cell is filled only by a step of the spawned task.
C7_LaunchDoesNotWait ==
    /\ [](\A p \in Calls : pc[p] = "spawned" => ENABLED LaunchRespond(p))
    /\ [][LaunchResponseLeavesCells /\ OnlyTheTaskFills]_vars

C7_Witness ==
    \E p \in Calls :
        /\ req[p].kind = "launch" /\ pc[p] = "done" /\ resp[p].status = "Ok"
        /\ ~IsFull(result_stores[req[p].sid])
        /\ task[req[p].sid].pc = "gathering"

(***************************************************************************)
(* Properties of the symbolic session and executor.                        *)
(***************************************************************************)
SetupReturnsCached ==
    \A t \in Threads :
        (thr[t].call = "setup" /\ thr[t].pc = "done") =>
            /\ thr[t].ret # NoSetup
            /\ thr[t].ret = state[Shared].replicated_keys[thr[t].plc]

CachedSetupStays ==
    \A plc \in RepPlcs :
        state[Shared].replicated_keys[plc] # NoSetup
            => state'[Shared].replicated_keys[plc] = state[Shared].replicated_keys[plc]

\* C8: every setup(plc) call that has returned, whatever the interleaving of
\* the calls, returned the one setup the cache holds for plc, and a setup once
\* cached for a placement is never replaced.
C8_SetupUnique == []SetupReturnsCached /\ [][CachedSetupStays]_vars

\* Two calls raced on a miss for one placement: both generated keys, one lost.
C8_Witness ==
    \E t \in Threads, u \in Threads :
        /\ t # u
        /\ thr[t].call = "setup" /\ thr[u].call = "setup"
        /\ thr[t].pc = "done" /\ thr[u].pc = "done"
        /\ thr[t].plc = thr[u].plc
        /\ Len(thr[t].keys) = 3 /\ Len(thr[u].keys) = 3
        /\ thr[t].ret = thr[u].ret
        /\ thr[u].ret = RepSetup(thr[t].keys)

Finished(r) == run[r].pc \in {"done", "failed", "panicked"}

IsPrefix(a, b) == Len(a) <= Len(b) /\ \A i \in 1..Len(a) : a[i] = b[i]

\* Every operation of the computation has a kernel that registers exactly one operation.
SingleRegistering(c) == \A i \in 1..Len(c) : c[i].kind \in HostKinds

ResultIsEmittedOps ==
    \A r \in Runs :
        /\ IsPrefix(state[r].ops, state'[r].ops)
        /\ (run[r].pc # "done" /\ run'[r].pc = "done") => run'[r].result = state[r].ops

LoweredOneToOne ==
    \A r \in Runs :
        (run[r].pc = "done" /\ SingleRegistering(computation)) =>
            /\ Len(run[r].result) = Len(computation)
            /\ \A i \in 1..Len(computation) :
                  /\ run[r].result[i].name = "op_" \o ToString(i - 1)
                  /\ run[r].result[i].placement = computation[i].placement

\* C10: the computation run_computation returns is the list of operations the
\* session registered during the walk, in the order they were registered (the
\* list only grows); when every source operation registers exactly one
\* operation, the result has the length of the source, names op_0 .. op_{n-1}
\* in source order, and the placement of each source operation.
C10_LoweredComputation == []LoweredOneToOne /\ [][ResultIsEmittedOps]_vars

\* Input, Add, Output on hosts, lowered.
C10_Witness ==
    \E r \in Runs :
        /\ run[r].pc = "done"
        /\ Len(computation) >= 3
        /\ SingleRegistering(computation)
        /\ <<computation[1].kind, computation[2].kind, computation[3].kind>>
              = <<"Input", "Add", "Output">>
        /\ computation[3].placement # computation[1].placement
        /\ Len(run[r].result) = Len(computation)

(***************************************************************************)
(* Properties of execute and add_operation on a shared session.            *)
(***************************************************************************)
RejectedExecuteFails ==
    \A t \in Threads :
        (thr[t].pc = "idle" /\ thr'[t].call = "execute" /\ thr'[t].kind \in RejectedKinds) =>
            /\ thr'[t].pc = "failed"
            /\ thr'[t].variant = "Compilation"
            /\ thr'[t].err = IF thr'[t].kind = "Send"
                             THEN "SendOp not supported on symbolic sessions"
                             ELSE "ReceiveOp not supported on symbolic sessions"
            /\ state'[Shared].ops = state[Shared].ops
            /\ state'[Shared].replicated_keys = state[Shared].replicated_keys

\* C11: execute of a Send or a Receive operator on a symbolic session, at any
\* placement and with any operand list, fails with a Compilation error whose
\* message is "SendOp not supported on symbolic sessions" (resp. "ReceiveOp
\* ..."), and leaves the emitted operations and the setup cache as they were.
C11_SendReceiveRejected == [][RejectedExecuteFails]_vars

\* Send and Receive were both rejected on a session that holds operations and
\* a cached setup.
C11_Witness ==
    /\ \E t \in Threads, u \in Threads :
          /\ thr[t].call = "execute" /\ thr[t].kind = "Send" /\ thr[t].pc = "failed"
          /\ thr[u].call = "execute" /\ thr[u].kind = "Receive" /\ thr[u].pc = "failed"
    /\ Len(state[Shared].ops) > 3
    /\ \E plc \in RepPlcs : state[Shared].replicated_keys[plc] # NoSetup

(***************************************************************************)
(* Error propagation in run_computation.                                   *)
(***************************************************************************)
\* A failed run stopped at the operation whose execute failed: every earlier
\* operation is in the environment, the failing one and the later ones are not,
\* the run takes no further step and returned no Computation but a Compilation
\* error that wraps the error of execute.
WalkStopsAtFailure ==
    \A r \in Runs :
        run[r].pc = "failed" =>
            /\ run[r].idx \in 1..Len(computation)
            /\ ~Compile(computation[run[r].idx].kind, computation[run[r].idx].placement).ok
            /\ DOMAIN run[r].env = {computation[i].name : i \in 1..(run[r].idx - 1)}
            /\ run[r].result = <<>>
            /\ run[r].variant = "Compilation"
            /\ run[r].err[1] = MsgLowering
            /\ ~ENABLED RunStep(r)
            /\ ~ENABLED RunFinish(r)

\* The text of the error names the operation.
ErrorNames(err, op) == \E i \in 1..Len(err) : err[i] = op.name

\* C12: when execute fails for an operation during run_computation the walk
\* stops at that operation, no Computation is returned, and the returned error
\* is a Compilation error annotated with the failing operation.
C12_ErrorPropagation ==
    /\ WalkStopsAtFailure
    /\ \A r \in Runs :
          run[r].pc = "failed" => ErrorNames(run[r].err, computation[run[r].idx])

(***************************************************************************)
(* Concurrent add_operation calls on one session.                          *)
(***************************************************************************)
\* The i-th emitted operation (counting from 0) is named op_i.
NamedByPosition ==
    \A i \in 1..Len(state[Shared].ops) :
        state[Shared].ops[i].name = "op_" \o ToString(i - 1)

\* The handle a returned add_operation call holds names one emitted operation,
\* which has the kind, inputs and placement of the call, and no other call
\* holds that name.
HandleNamesOwnOperation ==
    \A t \in Threads :
        (thr[t].call = "add" /\ thr[t].pc = "done") =>
            /\ thr[t].ret.plc = thr[t].plc
            /\ \E i \in 1..Len(state[Shared].ops) :
                  state[Shared].ops[i]
                      = Operation(thr[t].ret.op, thr[t].kind, thr[t].inputs, thr[t].plc)
            /\ \A u \in Threads \ {t} :
                  (thr[u].call = "add" /\ thr[u].pc = "done") => thr[u].ret.op # thr[t].ret.op

\* The call that returns is the one that appended: the list grew by exactly the
\* operation its handle names.
ReturnedHandleIsAppended ==
    \A t \in Threads :
        (thr[t].pc = "adding" /\ thr'[t].pc = "done") =>
            state'[Shared].ops =
                Append(state[Shared].ops,
                       Operation(thr'[t].ret.op, thr[t].kind, thr[t].inputs, thr[t].plc))

\* C20: after any interleaving of concurrent add_operation calls on one
\* session the i-th emitted operation is named op_i, and the handle each call
\* returns carries the name of exactly the operation that call appended, whose
\* kind, inputs and placement are the ones passed to the call.
C20_EmissionOrder ==
    /\ [](NamedByPosition /\ HandleNamesOwnOperation)
    /\ [][ReturnedHandleIsAppended]_vars

\* Three calls were made in one order and took the lock in another: the first
\* caller appended last.
C20_Witness ==
    /\ \A t \in 1..3 : thr[t].call = "add" /\ thr[t].pc = "done"
    /\ thr[1].ret.op = "op_2" /\ thr[3].ret.op = "op_0"
    /\ thr[1].kind # thr[3].kind
    /\ thr[1].inputs # thr[2].inputs
    /\ thr[2].plc # thr[3].plc

(***************************************************************************)
(* Properties of the host kernels.                                         *)
(***************************************************************************)
Ended(op) == kernel.pc \in {"returned", "panicked"} /\ kernel.op = op

SomeMirrored(xs) == \E i \in 1..Len(xs) : xs[i].variant = "Mirrored3"

ReturnedUnimplemented ==
    /\ kernel.pc = "returned"
    /\ kernel.out.tag = "Err"
    /\ kernel.out.variant = "UnimplementedOperator"

\* C13: the runtime Send kernel, the runtime Receive kernel, the 32-bit
\* RingFixedpointDecode kernel and Maximum given a Mirrored3 operand each
\* return Err(UnimplementedOperator) to the caller, for every input: no crash,
\* no success.
C13_OpenItemsSurfaced ==
    /\ (Ended("Send") \/ Ended("Receive") \/ Ended("RingFixedpointDecode"))
          => ReturnedUnimplemented
    /\ (Ended("Maximum") /\ SomeMirrored(kernel.args.xs)) => ReturnedUnimplemented

\* C14: every float host kernel other than Identity and Mux, called with some
\* float operand in the Mirrored3 variant, returns an UnimplementedOperator
\* error to the caller: never a crash, never a computed value.
C14_MirroredUnimplemented ==
    \A op \in {"Mean", "Cast", "Sum", "Sigmoid", "Softmax", "AtLeast2D", "Abs", "Relu", "Add",
               "AddN", "Sub", "Mul", "Div", "Dot", "Less", "Greater", "Reshape", "IndexAxis",
               "ExpandDims", "Concat", "Transpose", "Inverse", "Log", "Log2", "Sqrt", "Exp",
               "Save", "Shape", "Output", "Slice", "Maximum", "Squeeze"} :
        (Ended(op) /\ SomeMirrored(kernel.args.xs)) => ReturnedUnimplemented

\* C15: for every pair of elements x, y of a ring tensor, pairs whose
\* difference overflows the signed range included, Less outputs 1 iff x < y as
\* signed two's-complement integers, and 0 otherwise.
C15_LessLaw ==
    Ended("LessRing") =>
        /\ kernel.out.tag = "Ok"
        /\ \A j \in 1..Len(kernel.args.x.data) :
              kernel.out.value.data[j] =
                  IF AsSigned(kernel.args.x.data[j], kernel.w)
                        < AsSigned(kernel.args.y.data[j], kernel.w)
                  THEN 1 ELSE 0

\* C16: for every element x of a ring tensor Sign outputs 1 or the all-ones
\* word, and it outputs 1 iff x as a signed two's-complement integer is
\* non-negative (zero maps to 1).
C16_SignLaw ==
    Ended("Sign") =>
        /\ kernel.out.tag = "Ok"
        /\ Len(kernel.out.value.data) = Len(kernel.args.x.data)
        /\ \A j \in 1..Len(kernel.args.x.data) :
              /\ kernel.out.value.data[j] \in {1, 2^kernel.w - 1}
              /\ kernel.out.value.data[j] = 1
                    <=> kernel.args.x.data[j] < 2^(kernel.w - 1)

\* Sign of a tensor that holds zero and the most negative word.
C16_Witness ==
    /\ Ended("Sign")
    /\ kernel.w = RingBits128
    /\ kernel.args.x.data = <<0, 2^(RingBits128 - 1)>>
    /\ kernel.out.value.data = <<1, 2^RingBits128 - 1>>

\* C17: BitDecompose of a ring tensor of bit length L yields exactly L slices
\* along the first axis, slice i being (x >> i) & 1 elementwise, least
\* significant bit first; and BitExtract(i, x), for i in 0..L-1, equals slice i
\* of BitDecompose(x).
C17_BitDecompose ==
    /\ Ended("BitDec") =>
          /\ kernel.out.tag = "Ok"
          /\ Len(kernel.out.value.data) = kernel.w
          /\ \A i \in 0..(kernel.w - 1) :
                /\ Len(kernel.out.value.data[i + 1]) = Len(kernel.args.x.data)
                /\ \A j \in 1..Len(kernel.args.x.data) :
                      kernel.out.value.data[i + 1][j] = (kernel.args.x.data[j] \div 2^i) % 2
    /\ Ended("BitExtract") =>
          /\ kernel.out.tag = "Ok"
          /\ kernel.out.value.data =
                bit_dec_kernel(kernel.w, kernel.plc, kernel.args.x).value.data[kernel.args.bit_idx + 1]

\* The decomposition of <<1, most negative word>>: the lowest slice holds the
\* 1 of the first element, the highest the sign bit of the second.
C17_Witness ==
    /\ Ended("BitDec")
    /\ kernel.w = RingBits64
    /\ kernel.args.x.data = <<1, 2^(RingBits64 - 1)>>
    /\ kernel.out.value.data[1] = <<1, 0>>
    /\ kernel.out.value.data[RingBits64] = <<0, 1>>

\* C18: HostShlDim(amount, bit_length, x), for bit_length >= 1 and x holding
\* the slices the shift reads, returns exactly bit_length slices along the
\* leading axis: slice i is all zeros for i < amount and slice i - amount of x
\* for amount <= i < bit_length, so the top `amount` slices of x are dropped.
C18_ShlDim ==
    (/\ Ended("ShlDim")
     /\ kernel.args.bit_length >= 1
     /\ Len(kernel.args.x.data) >= kernel.args.bit_length - kernel.args.amount) =>
        /\ kernel.out.tag = "Ok"
        /\ Len(kernel.out.value.data) = kernel.args.bit_length
        /\ \A i \in 0..(kernel.args.bit_length - 1) :
              IF i < kernel.args.amount
              THEN \A j \in 1..Len(kernel.out.value.data[i + 1]) :
                      kernel.out.value.data[i + 1][j] = 0
              ELSE kernel.out.value.data[i + 1] = kernel.args.x.data[i - kernel.args.amount + 1]

\* A shift by one of three slices whose top slice is not zero.
C18_Witness ==
    /\ Ended("ShlDim")
    /\ kernel.args.amount = 1 /\ kernel.args.bit_length = 3
    /\ kernel.args.x.data = <<<<0, 1>>, <<1, 1>>, <<1, 1>>>>
    /\ kernel.out.value.data = <<<<0, 0>>, <<0, 1>>, <<1, 1>>>>

RECURSIVE SumAt(_, _, _)
SumAt(xs, j, k) == IF k = 0 THEN 0 ELSE xs[k].data[j] + SumAt(xs, j, k - 1)

\* C19: AddN on an empty list fails with InvalidArgument in every host variant
\* (ring tensors, host float tensors, FloatTensor); on a non-empty list of ring
\* tensors it returns the elementwise sum of all operands modulo 2^L, placed
\* at the given placement.
C19_AddN ==
    /\ ((Ended("AddNHost") \/ Ended("AddN")) /\ kernel.args.xs = <<>>) =>
          /\ kernel.out.tag = "Err"
          /\ kernel.out.variant = "InvalidArgument"
    /\ (Ended("AddNHost") /\ kernel.w \in RingWidths /\ kernel.args.xs # <<>>) =>
          /\ kernel.out.tag = "Ok"
          /\ kernel.out.value.plc = kernel.plc
          /\ Len(kernel.out.value.data) = Len(kernel.args.xs[1].data)
          /\ \A j \in 1..Len(kernel.args.xs[1].data) :
                kernel.out.value.data[j]
                    = SumAt(kernel.args.xs, j, Len(kernel.args.xs)) % 2^kernel.w

\* Three ring tensors whose sum wraps, added for a host that holds none of them.
C19_Witness ==
    /\ Ended("AddNHost")
    /\ kernel.w = RingBits64
    /\ Len(kernel.args.xs) = 3
    /\ kernel.plc # kernel.args.xs[1].plc
    /\ \E j \in 1..Len(kernel.args.xs[1].data) :
          SumAt(kernel.args.xs, j, 3) >= 2 * 2^RingBits64

(***************************************************************************)
(* Who touches the result store.                                            *)
(***************************************************************************)
\* The step is the vacant arm of the entry() of a launch of sid.
LaunchInserts(sid) ==
    \E p \in Calls :
        /\ pc[p] = "entry" /\ pc'[p] # "entry"
        /\ req[p].kind = "launch" /\ req[p].sid = sid
        /\ result_stores'[sid] = AsyncCellShared(p)

\* The step is the set() of the task spawned for sid.
TaskFills(sid) ==
    /\ task[sid].pc = "gathering" /\ task'[sid].pc = "done"
    /\ IsFull(result_stores'[sid])
    /\ result_stores'[sid].owner = result_stores[sid].owner
    /\ req[result_stores[sid].owner].sid = sid

\* The step belongs to a RetrieveResults call: its arrival or its resumption.
RetrieveSteps ==
    \E p \in Calls :
        \/ pc[p] = "idle" /\ pc'[p] # "idle" /\ req'[p].kind = "retrieve"
        \/ pc[p] = "awaiting" /\ pc'[p] # "awaiting"

StoreAccess ==
    /\ \A sid \in Sids :
          result_stores'[sid] # result_stores[sid] =>
              /\ IF result_stores[sid] = Absent
                 THEN LaunchInserts(sid)
                 ELSE ~IsFull(result_stores[sid]) /\ TaskFills(sid)
              /\ \A other \in Sids \ {sid} : result_stores'[other] = result_stores[other]
    /\ RetrieveSteps => result_stores' = result_stores

\* C25: an entry is added to the result store only by the entry() step of a
\* launch of that session id, a cell is filled only by the task spawned for
\* that session id, a step of RetrieveResults leaves the store unchanged, and
\* a step that changes the cell of one session id changes no other cell.
C25_StoreAccessDiscipline == [][StoreAccess]_vars

\* One session's cell is full and has been retrieved while another session's
\* cell is registered and still empty.
C25_Witness ==
    \E a \in Sids, b \in Sids, p \in Calls :
        /\ a # b
        /\ IsFull(result_stores[a])
        /\ result_stores[b] # Absent /\ ~IsFull(result_stores[b])
        /\ req[p].kind = "retrieve" /\ req[p].sid = a
        /\ pc[p] = "done" /\ resp[p].status = "Ok"

(***************************************************************************)
(* A launch that fails after it has inserted its cell.                      *)
(***************************************************************************)
LateFailures == {MsgFailedLaunch} \cup {MsgBadPayload(x) : x \in Payloads \ {"ok"}}

FailedAfterInsert(p) ==
    /\ req[p].kind = "launch" /\ pc[p] = "done"
    /\ resp[p].status = "Aborted" /\ resp[p].msg \in LateFailures

RetrievesOf(sid) == {q \in Calls : req[q].kind = "retrieve" /\ req[q].sid = sid}

FailedLaunchInv ==
    \A p \in Calls :
        FailedAfterInsert(p) =>
            LET sid == req[p].sid IN
            /\ result_stores[sid] = AsyncCellShared(p)
            /\ task[sid] = NoTask
            /\ \A q \in LaunchersOf(sid) \ {p} :
                  /\ ~PassedOccupancy(q)
                  /\ pc[q] = "done" => resp[q] = Aborted(MsgSessionExists)
            /\ \A q \in RetrievesOf(sid) : pc[q] = "done" => resp[q].status # "Ok"

FailedLaunchBlocks ==
    \A p \in Calls :
        FailedAfterInsert(p) =>
            \A q \in Calls :
                /\ ( /\ pc[q] = "idle" /\ pc'[q] # "idle"
                     /\ req'[q].kind = "retrieve" /\ req'[q].sid = req[p].sid )
                      => pc'[q] = "awaiting"
                /\ (pc[q] = "awaiting" /\ req[q].sid = req[p].sid)
                      => pc'[q] = "awaiting" /\ ~ENABLED RetrieveResume(q)
                /\ (pc[q] = "entry" /\ req[q].sid = req[p].sid /\ pc'[q] # "entry")
                      => pc'[q] = "done" /\ resp'[q] = Aborted(MsgSessionExists)

SomeOutputFailed(sid) == \E n \in DOMAIN outputs[sid] : outputs[sid][n] = Failed

NoOutputPending(sid) == \A n \in DOMAIN outputs[sid] : outputs[sid][n] # Pending

FailedOutputInv ==
    \A sid \in Sids :
        SomeOutputFailed(sid) =>
            /\ task[sid].pc \in {"gathering", "panicked"}
            /\ task[sid].pc = "gathering" =>
                  \E i \in 1..Len(task[sid].queue) : outputs[sid][task[sid].queue[i]] = Failed
            /\ result_stores[sid] # Absent /\ ~IsFull(result_stores[sid])
            /\ \A q \in RetrievesOf(sid) : pc[q] = "done" => resp[q].status # "Ok"

FailedOutputEnds ==
    \A sid \in Sids :
        SomeOutputFailed(sid) =>
            /\ result_stores'[sid] = result_stores[sid]
            /\ task'[sid].pc # "done"
            /\ IF task[sid].pc = "panicked"
               THEN task'[sid] = task[sid]
               ELSE ( /\ task'[sid] # task[sid]
                      /\ outputs[sid][Head(task[sid].queue)] = Failed )
                        => task'[sid].pc = "panicked"
            /\ \A q \in Calls :
                  /\ (pc[q] = "awaiting" /\ req[q].sid = sid) => pc'[q] = "awaiting"
                  /\ ( /\ pc[q] = "idle" /\ pc'[q] # "idle"
                       /\ req'[q].kind = "retrieve" /\ req'[q].sid = sid )
                        => pc'[q] = "awaiting"

FailedOutputStopsTask ==
    \A sid \in Sids :
        (SomeOutputFailed(sid) /\ NoOutputPending(sid)) ~> (task[sid].pc = "panicked")

\* C27: once an output async-value of a launched session has resolved to an
\* error, the task of the session never fills the cell: the cell stays
\* registered and empty for ever, the task ends by the panic of unwrap() when
\* its loop reaches the failed output (which it does once no output before it
\* is pending), and every retrieve of the session, suspended before or
\* arriving later, stays suspended on the cell.
C27_FailedOutputStrandsCell ==
    /\ []FailedOutputInv
    /\ [][FailedOutputEnds]_vars
    /\ FailedOutputStopsTask

\* The task has panicked on the second output after gathering the first, the
\* launch has answered Ok and a retrieve is suspended on the empty cell.
C27_Witness ==
    \E sid \in Sids, p \in Calls, q \in Calls :
        /\ task[sid].pc = "panicked"
        /\ DOMAIN task[sid].results # {}
        /\ p \in LaunchersOf(sid) /\ pc[p] = "done" /\ resp[p].status = "Ok"
        /\ q \in RetrievesOf(sid) /\ pc[q] = "awaiting"
        /\ result_stores[sid] = AsyncCellShared(p)

(***************************************************************************)
(* Retrieving a filled cell.                                                *)
(***************************************************************************)
RetrievedIsCell ==
    \A p \in Calls :
        (req[p].kind = "retrieve" /\ pc[p] = "done" /\ resp[p].status = "Ok") =>
            /\ IsFull(result_stores[req[p].sid])
            /\ resp[p].values = Serialize(result_stores[req[p].sid].value)

RetrieveKeepsCell ==
    \A p \in Calls :
        /\ (req'[p].kind = "retrieve" /\ pc[p] # "done" /\ pc'[p] = "done")
              => result_stores' = result_stores
        /\ ( /\ pc[p] = "idle" /\ pc'[p] # "idle"
             /\ req'[p].kind = "retrieve" /\ req'[p].sid \in Sids
             /\ IsFull(result_stores[req'[p].sid]) )
              => /\ pc'[p] = "done"
                 /\ resp'[p] = OkResponse(Serialize(result_stores[req'[p].sid].value))

\* C28: RetrieveResults reads the cell without consuming it: a retrieve that
\* finds the cell of its session full answers at once with the serialized
\* ComputationOutputs, the step in which a retrieve answers leaves the result
\* store unchanged, and every retrieve that has answered Ok, whether it
\* arrived before or after the cell was filled, holds the serialization of
\* the value the cell still holds.
C28_RetrieveRepeatable == []RetrievedIsCell /\ [][RetrieveKeepsCell]_vars

\* Two retrieves of one session have both answered with its two outputs.
C28_Witness ==
    \E p \in Calls, q \in Calls :
        /\ p < q
        /\ req[p].kind = "retrieve" /\ req[q].kind = "retrieve"
        /\ req[p].sid = req[q].sid
        /\ pc[p] = "done" /\ pc[q] = "done"
        /\ resp[p].status = "Ok" /\ resp[q] = resp[p]
        /\ DOMAIN result_stores[req[p].sid].value.outputs = OutputNames

(***************************************************************************)
(* Entries of the result store are permanent.                               *)
(***************************************************************************)
EntriesKept ==
    \A sid \in Sids :
        result_stores[sid] # Absent =>
            /\ result_stores'[sid] # Absent
            /\ result_stores'[sid].owner = result_stores[sid].owner
            /\ \A p \in Calls :
                  (pc[p] = "entry" /\ req[p].sid = sid /\ pc'[p] # "entry")
                      => /\ pc'[p] = "done"
                         /\ resp'[p] = Aborted(MsgSessionExists)

TaskFindsCell ==
    \A sid \in Sids :
        /\ task[sid].pc # "none" =>
              /\ result_stores[sid] # Absent
              /\ req[result_stores[sid].owner].sid = sid
        /\ task[sid].pc = "panicked" => SomeOutputFailed(sid)
        /\ Cardinality({p \in LaunchersOf(sid) : PassedOccupancy(p)}) <= 1

\* C29: no step removes or replaces an entry of the result store, so the set
\* of known session ids only grows and a launch that reaches the occupancy
\* check of a known id is rejected; at most one launch per id is ever
\* accepted; and whenever a task exists its cell is registered, so the task
\* never panics on "session disappeared unexpectedly" (a panicked task has a
\* failed output).
C29_EntriesPermanent == []TaskFindsCell /\ [][EntriesKept]_vars

\* A session was launched, aborted and launched again: the second launch was
\* rejected, the abort panicked and the task filled the cell all the same.
C29_Witness ==
    \E sid \in Sids, p \in Calls, q \in Calls :
        /\ req[p].kind = "abort" /\ req[p].sid = sid /\ pc[p] = "done"
        /\ q \in LaunchersOf(sid) /\ q > p
        /\ resp[q] = Aborted(MsgSessionExists)
        /\ task[sid].pc = "done" /\ IsFull(result_stores[sid])

(***************************************************************************)
(* The session lock around setup.                                           *)
(***************************************************************************)
InSetup(t) == thr[t].call = "setup" /\ thr[t].pc \in {"gen", "insert"}

NoGuardWhileGenerating ==
    \A t \in Threads :
        /\ InSetup(t) => thr[t].holds = "none"
        /\ thr[t].pc = "gen" => ENABLED GenSetupKey(t)
        /\ thr[t].pc = "insert" => ENABLED SetupInsert(t)
        /\ Starts(t) => \A plc \in HostPlcs : ENABLED AddOperation(t, "Input", plc)

\* A thread makes one call, so every call that missed returns iff from some
\* point on no thread is inside setup.
EverySetupReturns == <>[](\A t \in Threads : ~InSetup(t))

\* C21: a thread inside setup holds no guard of the session lock while it
\* generates: the read guard of the lookup is dropped on a miss and the write
\* lock is taken per add_operation and for the final insert only. With any
\* number of threads in setup and add_operation on one session, every thread
\* that is between two steps can take its next one (no thread waits for a
\* guard that is never released), and under a fair lock every setup call
\* that missed eventually returns.
C21_SetupLockDiscipline == []NoGuardWhileGenerating /\ EverySetupReturns

\* Three threads are inside setup at once, two of them generating for the
\* same placement, and an operation of one is already in the list.
C21_Witness ==
    /\ \A t \in Threads : InSetup(t)
    /\ \E t \in Threads, u \in Threads :
          t # u /\ thr[t].plc = thr[u].plc /\ thr[t].pc = "gen" /\ thr[u].pc = "gen"
    /\ \E t \in Threads : thr[t].pc = "insert"

(***************************************************************************)
(* setup after a setup of the same placement has returned.                  *)
(***************************************************************************)
SetupReturned(plc) ==
    \E u \in Threads : thr[u].call = "setup" /\ thr[u].plc = plc /\ thr[u].pc = "done"

LaterSetupHits ==
    \A t \in Threads, plc \in RepPlcs :
        ( /\ SetupReturned(plc)
          /\ thr[t].pc = "idle" /\ thr'[t].pc # "idle"
          /\ thr'[t].call = "setup" /\ thr'[t].plc = plc )
            => /\ thr'[t].pc = "done"
               /\ thr'[t].keys = <<>>
               /\ thr'[t].ret # NoSetup
               /\ thr'[t].ret = state[Shared].replicated_keys[plc]
               /\ \A u \in Threads :
                     (thr[u].call = "setup" /\ thr[u].plc = plc /\ thr[u].pc = "done")
                         => thr'[t].ret = thr[u].ret
               /\ state' = state

\* C22: a setup(plc) that starts after some setup(plc) of the same placement
\* has returned is a cache hit: it returns in its lookup step the setup the
\* earlier call returned, generates no key, emits no operation and leaves the
\* operation list and the cache unchanged.
C22_SetupCacheHit == [][LaterSetupHits]_vars

\* A call generated and cached a setup; a later call of the same placement
\* returned it without generating, while the list holds only the three keys.
C22_Witness ==
    \E t \in Threads, u \in Threads :
        /\ t < u
        /\ thr[t].call = "setup" /\ thr[u].call = "setup"
        /\ thr[t].plc = thr[u].plc
        /\ thr[t].pc = "done" /\ thr[u].pc = "done"
        /\ Len(thr[t].keys) = 3 /\ thr[u].keys = <<>>
        /\ thr[u].ret = RepSetup(thr[t].keys)
        /\ Len(state[Shared].ops) = 3

(***************************************************************************)
(* The operation list under racing setups.                                  *)
(***************************************************************************)
AppendOnly == \A r \in Runs : IsPrefix(state[r].ops, state'[r].ops)

\* The operation a handle names is in the list, as the key generation that
\* was registered for it.
KeyIn(ops, h) ==
    \E j \in 1..Len(ops) :
        ops[j] = Operation(h.op, "PrfKeyGen", <<>>, h.plc)

Generators(plc) ==
    {t \in Threads : thr[t].call = "setup" /\ thr[t].plc = plc /\ Len(thr[t].keys) = 3}

GeneratedOpsKept ==
    /\ \A t \in Threads :
          thr[t].call = "setup" =>
              \A i \in 1..Len(thr[t].keys) :
                  /\ KeyIn(state[Shared].ops, thr[t].keys[i])
                  /\ run[Shared].pc = "done" => KeyIn(run[Shared].result, thr[t].keys[i])
    /\ run[Shared].pc = "done" => run[Shared].result = state[Shared].ops
    /\ \A plc \in RepPlcs :
          LET cached == state[Shared].replicated_keys[plc] IN
          /\ Cardinality({t \in Generators(plc) : thr[t].pc = "done"}) > 0 => cached # NoSetup
          /\ cached # NoSetup =>
                Cardinality({t \in Generators(plc) : RepSetup(thr[t].keys) = cached}) = 1

\* C30: the operation list only grows by appending. Every setup(plc) call
\* that misses generates its keys, and the operations of every generator,
\* the losers of the insert included, stay in the list and are in the
\* Computation the session is lowered to, while the cache holds the setup of
\* exactly one of the generators of a placement.
C30_RacingSetupsKeepOps == []GeneratedOpsKept /\ [][AppendOnly]_vars

\* Three setups of one placement raced on the miss: the lowered Computation
\* holds the nine key generations, the cache the keys of one of them.
C30_Witness ==
    \E plc \in RepPlcs :
        /\ Cardinality(Generators(plc)) = 3
        /\ run[Shared].pc = "done"
        /\ Len(run[Shared].result) = 9
        /\ \E t \in Threads :
              /\ thr[t].ret # RepSetup(thr[t].keys)
              /\ KeyIn(run[Shared].result, thr[t].keys[1])

(***************************************************************************)
(* Arity and operand order in execute.                                      *)
(***************************************************************************)
NamesOf(operands) == [i \in 1..Len(operands) |-> operands[i].op]

\* The step registered exactly one operation, of the given kind and inputs.
Invoked(kind, plc, names) ==
    /\ state'[Shared].ops = Append(state[Shared].ops,
                                   Operation(OpName(state[Shared]), kind, names, plc))
    /\ state'[Shared].replicated_keys = state[Shared].replicated_keys

ArityDiscipline ==
    \A t \in Threads :
        ( /\ thr[t].pc = "idle" /\ thr'[t].call = "execute"
          /\ Compile(thr'[t].kind, thr'[t].plc).ok )
            => LET kind == thr'[t].kind
                   xs == thr'[t].arg
               IN  IF kind \in VariadicKinds
                   THEN thr'[t].pc = "done" /\ Invoked(kind, thr'[t].plc, NamesOf(xs))
                   ELSE IF Len(xs) = KernelArity(kind)
                   THEN thr'[t].pc = "done" /\ Invoked(kind, thr'[t].plc, NamesOf(xs))
                   ELSE thr'[t].pc = "panicked" /\ state' = state

\* C23: execute hands the operands to a nullary, unary, binary or ternary
\* kernel only when their number equals the arity of the kernel, and then in
\* their original order (the kernel registers its operation with the first
\* operand first); with any other number the call panics and the kernel is
\* not run (the session state is unchanged). A variadic kernel is run with
\* the whole operand list, in order, whatever its length.
C23_ArityDiscipline == [][ArityDiscipline]_vars

\* A ternary kernel was run on three operands the first and last of which
\* differ, and registered them in the order given.
C23_Witness ==
    \E t \in Threads :
        /\ thr[t].call = "execute" /\ thr[t].kind = "Mux" /\ thr[t].pc = "done"
        /\ Len(thr[t].arg) = 3
        /\ thr[t].arg[1].op # thr[t].arg[3].op
        /\ thr[t].arg[1].op = thr[t].arg[2].op
        /\ state[Shared].ops[Len(state[Shared].ops)].inputs = NamesOf(thr[t].arg)

(***************************************************************************)
(* place on symbolic values.                                                *)
(***************************************************************************)
PlaceLaw ==
    \A t \in Threads :
        (thr[t].pc = "idle" /\ thr'[t].call = "place") =>
            LET x == thr'[t].arg[1]
                target == thr'[t].plc
                r == thr'[t].ret
            IN  /\ state' = state
                /\ placement(x) = target => r = x
                /\ (x.tag = "Symbolic" /\ placement(x) # target) =>
                      /\ r.tag = "Symbolic"
                      /\ r.op = x.op
                /\ (x.tag = "Symbolic" \/ placement(x) = target) =>
                      /\ placement(r) = target
                      /\ place(target, r) = r

\* C24: place of a symbolic value that is on the target placement returns
\* the value itself; place of a Symbolic handle that is on another placement
\* returns a Symbolic handle with the same operation name; in both cases the
\* session state is unchanged (no operation is emitted), the placement of
\* the result is the target, and placing the result on the target again
\* returns it unchanged.
C24_SymbolicPlace == [][PlaceLaw]_vars

\* A handle on one replicated placement was placed on the other, on a session
\* that already holds operations.
C24_Witness ==
    \E t \in Threads :
        /\ thr[t].call = "place"
        /\ thr[t].arg[1].tag = "Symbolic"
        /\ thr[t].plc.kind = "Replicated"
        /\ thr[t].arg[1].plc # thr[t].plc
        /\ thr[t].ret = Symbolic(SymbolicHandle(thr[t].arg[1].op, thr[t].plc))
        /\ state[Shared].ops # <<>>

====
